---- MODULE Spec2Model ----
(***************************************************************************)
(* A model of the Mixcloud LRC generator: the tag locator                  *)
(* (extract_mixcloud_url), the URL parser (extract_lookup), the tracklist  *)
(* fetch (fetch_tracklist), the timeline policy and the persist step of    *)
(* process_audio_with_url / process_audio_from_tags.                       *)
(* The writers of embed_lyrics_any, a second processing of the same file,  *)
(* the batch run (walk) and generate_lrc_content on long section lists     *)
(* have specifications of their own: SpecE, SpecR, SpecW, SpecL.           *)
(*                                                                         *)
(* Strings are sequences of tokens.  A token is either "/", the platform's *)
(* domain literal "mixcloud.com", or a run of other characters that holds  *)
(* neither; the substring test `"mixcloud.com" in s` and the regular       *)
(* expression of extract_lookup are computed over these tokens.            *)
(* Python floats are exact rationals [num, den] in lowest terms.           *)
(***************************************************************************)
EXTENDS Integers, Sequences, FiniteSets, TLC

----------------------------------------------------------------------------
(* Bounds of the model *)

\* longest tracklist the API returns
MaxSections == 3
\* most fields a tag mapping holds
MaxTags == 2

\* the most USLT frames an mp3 file holds before a call
MaxLyrics == 2

\* the most calls of embed_lyrics_any on one file
MaxCalls == 2

\* the most paths under the root of a batch run
MaxTree == 3

\* the longest section list rendered on its own
MaxLines == 101

\* the latest time formatted on its own, in milliseconds
MaxMillis == 60010

\* the most audio files in the directory of a batch run
MaxFolder == 2

\* the most playlists of one user
MaxPlaylists == 2

\* the most pages the server holds for one paginated list
MaxPages == 2

\* the most entries of one playlist or of the uploads
MaxTracks == 2

\* the largest --limit given
MaxLimit == 2

----------------------------------------------------------------------------
(* Strings *)

EmptyStr == <<>>
DomainMarker == "mixcloud.com"

\* "mixcloud.com/user/mix-a/"
UrlA == <<"mixcloud.com", "/", "user", "/", "mix-a", "/">>
\* "https://www.mixcloud.com/dj%C3%A6/mix-b"
UrlB == <<"https:", "/", "/", "www.", "mixcloud.com", "/", "dj%C3%A6", "/", "mix-b">>
\* "https://example.org/user/mix-a" : a URL of another site
UrlX == <<"https:", "/", "/", "example.org", "/", "user", "/", "mix-a">>
\* "mixcloud.com/user" : the domain, but no slug
UrlNoSlug == <<"mixcloud.com", "/", "user">>
\* str([]) : what str() makes of an empty list
StrOfEmptyList == <<"[]">>

\* `"mixcloud.com" in s`
ContainsDomain(s) == \E i \in 1..Len(s) : s[i] = DomainMarker

\* Python's None / a str, as the result of a lookup
NoneStr == [isNone |-> TRUE, s |-> EmptyStr]
SomeStr(s) == [isNone |-> FALSE, s |-> s]
\* truthiness of an Optional[str]
Truthy(o) == ~o.isNone /\ o.s # EmptyStr

----------------------------------------------------------------------------
(* Tag mappings: an insertion-ordered dict, a sequence of [key, value].    *)
(* A value is absent (None), a URL frame (attribute url), a text frame     *)
(* (attribute text, a list), a plain list or a plain str.                  *)

\* a lookup that tells the letter cases apart
LowerCaseSensitive(k) == k

\* str.lower() on the field names that occur
Lower(k) ==
    CASE k = "TXXX:purl" -> "txxx:purl"
      [] k = "txxx:PURL" -> "txxx:purl"
      [] k = "WXXX:purl" -> "wxxx:purl"
      [] k = "wXxX:pUrL" -> "wxxx:purl"
      [] k = "WPUB" -> "wpub"
      [] k = "WOAS" -> "woas"
      [] k = "Woas" -> "woas"
      [] k = "PURL" -> "purl"
      [] k = "URL" -> "url"
      [] k = "Comment" -> "comment"
      [] k = "TIT2" -> "tit2"
      [] OTHER -> k

NoValue == [shape |-> "none", items |-> <<>>]
UrlFrame(u) == [shape |-> "url", items |-> <<u>>]
TextFrame(l) == [shape |-> "text", items |-> l]
ListValue(l) == [shape |-> "list", items |-> l]
StrValue(s) == [shape |-> "str", items |-> <<s>>]

HasKey(tags, k) == \E i \in 1..Len(tags) : tags[i].key = k

\* _get_tag_value: the exact key, else the first key equal to it up to case
GetTagValue(tags, key) ==
    IF HasKey(tags, key)
    THEN tags[CHOOSE i \in 1..Len(tags) : tags[i].key = key].value
    ELSE IF \E i \in 1..Len(tags) : Lower(tags[i].key) = Lower(key)
         THEN LET first == CHOOSE i \in 1..Len(tags) :
                              /\ Lower(tags[i].key) = Lower(key)
                              /\ \A j \in 1..(i-1) : Lower(tags[j].key) # Lower(key)
              IN tags[first].value
         ELSE NoValue

\* _normalize_tag_value
NormalizeTagValue(value) ==
    CASE value.shape = "none" -> NoneStr
      [] value.shape = "url" ->
            \* a non-empty url attribute; else str(frame), which is the url
            SomeStr(value.items[1])
      [] value.shape = "text" ->
            IF value.items # <<>> THEN SomeStr(value.items[1])
            ELSE SomeStr(StrOfEmptyList)
      [] value.shape = "list" ->
            IF value.items # <<>> THEN SomeStr(value.items[1])
            ELSE SomeStr(StrOfEmptyList)
      [] OTHER -> SomeStr(value.items[1])

\* the plain fields tried before the legacy URL frames
SearchOrderPlainFirst ==
    <<"TXXX:purl", "WXXX:purl", "purl", "url", "WPUB", "WOAS", "comment">>

\* the three groups of fields, in the order the loops try them
FrameKeys == <<"TXXX:purl", "WXXX:purl", "WPUB", "WOAS">>
PlainKeys == <<"purl", "url">>
CommentKeys == <<"comment">>
SearchOrder == FrameKeys \o PlainKeys \o CommentKeys

\* the domain test on the comment alone
AcceptsDomainOnCommentOnly(key, o) ==
    Truthy(o) /\ (key = "comment" => ContainsDomain(o.s))

\* any text at all taken for a URL
AcceptsAnyText(key, o) == Truthy(o)

\* `if url and "mixcloud.com" in url`, the test every field goes through
Accepts(key, o) == Truthy(o) /\ ContainsDomain(o.s)

\* the field's normalized value
FieldText(tags, key) == NormalizeTagValue(GetTagValue(tags, key))

\* extract_mixcloud_url: the first field of the search order that passes
ExtractMixcloudUrl(tags) ==
    IF \E i \in 1..Len(SearchOrder) : Accepts(SearchOrder[i], FieldText(tags, SearchOrder[i]))
    THEN LET first == CHOOSE i \in 1..Len(SearchOrder) :
                        /\ Accepts(SearchOrder[i], FieldText(tags, SearchOrder[i]))
                        /\ \A j \in 1..(i-1) :
                              ~Accepts(SearchOrder[j], FieldText(tags, SearchOrder[j]))
         IN FieldText(tags, SearchOrder[first])
    ELSE NoneStr

----------------------------------------------------------------------------
(* The state of a tag search: the mapping searched and what was found.     *)

VARIABLES
    tagsT,       \* the tag mapping
    found        \* the result of extract_mixcloud_url on it, once searched

varsT == <<tagsT, found>>

TagTexts == {UrlA, UrlB, UrlX, EmptyStr}

\* the fields a writer can produce, each in the value shape its family uses
TagFields ==
    [key : {"TXXX:purl", "txxx:PURL"},
     value : {TextFrame(<<>>)} \cup {TextFrame(<<u>>) : u \in TagTexts}]
    \cup [key : {"WXXX:purl", "wXxX:pUrL", "WPUB", "WOAS", "Woas"},
          value : {UrlFrame(u) : u \in TagTexts}]
    \cup [key : {"purl", "PURL", "url", "URL"},
          value : {ListValue(<<>>)} \cup {ListValue(<<u>>) : u \in TagTexts}]
    \cup [key : {"comment", "Comment"},
          value : {ListValue(<<u>>) : u \in {UrlA, UrlX}}
                  \cup {StrValue(u) : u \in {UrlB, EmptyStr}}]
    \cup [key : {"TIT2"}, value : {StrValue(<<"Some Title">>)}]

NotSearched == [done |-> FALSE, url |-> NoneStr]

----------------------------------------------------------------------------
(* Floats: exact rationals in lowest terms, den > 0; None is a flag.       *)

Abs(x) == IF x < 0 THEN -x ELSE x

RECURSIVE GCD(_, _)
GCD(a, b) == IF b = 0 THEN a ELSE GCD(b, a % b)

Rat(n, d) == LET g == GCD(Abs(n), d) IN [num |-> n \div g, den |-> d \div g]

NoneFloat == [isNone |-> TRUE, num |-> 0, den |-> 1]
Float(n, d) == [isNone |-> FALSE, num |-> Rat(n, d).num, den |-> Rat(n, d).den]

\* a / n for an int n > 0, and i * a for an int i
FloatDivInt(a, n) == Float(a.num, a.den * n)
IntMulFloat(i, a) == Float(i * a.num, a.den)

\* `if audio_duration`: not None and not 0.0
FloatTruthy(a) == ~a.isNone /\ a.num # 0

----------------------------------------------------------------------------
(* extract_lookup *)

\* unquote(): percent-decoding of one token ("{ae}" is the letter U+00E6)
Unquote(t) ==
    CASE t = "dj%C3%A6" -> "dj{ae}"
      [] OTHER -> t

\* the end of the run of non-"/" tokens that starts at i: the first j >= i
\* that is past the end or holds a "/"
RunEnd(s, i) ==
    CHOOSE j \in i..(Len(s) + 1) :
        /\ j = Len(s) + 1 \/ s[j] = "/"
        /\ \A k \in i..(j - 1) : s[k] # "/"

\* mixcloud\.com/([^/]+)/([^/]+)/? matches with the domain at position i
LookupMatchesAt(s, i) ==
    /\ i + 1 <= Len(s)
    /\ s[i] = DomainMarker
    /\ s[i + 1] = "/"
    /\ LET e1 == RunEnd(s, i + 2)
       IN /\ e1 > i + 2
          /\ e1 <= Len(s)
          /\ RunEnd(s, e1 + 1) > e1 + 1

NoLookup == [ok |-> FALSE, user |-> EmptyStr, slug |-> EmptyStr]

\* extract_lookup: re.search takes the leftmost match; both groups are unquoted
ExtractLookup(url) ==
    IF \E i \in 1..Len(url) : LookupMatchesAt(url, i)
    THEN LET i == CHOOSE k \in 1..Len(url) :
                    /\ LookupMatchesAt(url, k)
                    /\ \A j \in 1..(k - 1) : ~LookupMatchesAt(url, j)
             e1 == RunEnd(url, i + 2)
             e2 == RunEnd(url, e1 + 1)
         IN [ok |-> TRUE,
             user |-> [k \in 1..(e1 - i - 2) |-> Unquote(url[i + 1 + k])],
             slug |-> [k \in 1..(e2 - e1 - 1) |-> Unquote(url[e1 + k])]]
    ELSE NoLookup

----------------------------------------------------------------------------
(* Tracklist sections, as the API returns them: a dict whose keys may be   *)
(* missing and whose startSeconds may be null.                             *)

TrackKeys == {"__typename", "startSeconds", "artistName", "songName"}
ChapterKeys == {"__typename", "startSeconds", "chapter"}

SectionPool ==
    { [typename |-> "TrackSection", keys |-> TrackKeys, startSeconds |-> Float(0, 1),
       artistName |-> "A", songName |-> "S1", chapter |-> ""],
      [typename |-> "TrackSection", keys |-> TrackKeys, startSeconds |-> Float(361, 2),
       artistName |-> "B", songName |-> "S2", chapter |-> ""],
      [typename |-> "TrackSection", keys |-> TrackKeys, startSeconds |-> NoneFloat,
       artistName |-> "C", songName |-> "S3", chapter |-> ""],
      [typename |-> "TrackSection", keys |-> TrackKeys \ {"songName"},
       startSeconds |-> Float(5, 1),
       artistName |-> "D", songName |-> "", chapter |-> ""],
      [typename |-> "ChapterSection", keys |-> ChapterKeys, startSeconds |-> Float(7, 4),
       artistName |-> "", songName |-> "", chapter |-> "Intro"],
      [typename |-> "ChapterSection", keys |-> {"__typename"}, startSeconds |-> NoneFloat,
       artistName |-> "", songName |-> "", chapter |-> ""] }

SectionLists == UNION {[1..n -> SectionPool] : n \in 0..MaxSections}

\* s.get('startSeconds') is not None
IsTimed(s) == "startSeconds" \in s.keys /\ ~s.startSeconds.isNone

TimedCount(sections) == Cardinality({i \in 1..Len(sections) : IsTimed(sections[i])})

\* an interpolation that keeps the timestamp a section came with
InterpolateMissingOnly(sections, duration) ==
    LET interval == FloatDivInt(duration, Len(sections))
    IN [k \in 1..Len(sections) |->
            IF IsTimed(sections[k]) THEN sections[k]
            ELSE [sections[k] EXCEPT !.keys = @ \cup {"startSeconds"},
                                     !.startSeconds = IntMulFloat(k - 1, interval)]]

\* s['startSeconds'] = i * interval, i 0-based: the key is set on every section
Interpolate(sections, duration) ==
    LET interval == FloatDivInt(duration, Len(sections))
    IN [k \in 1..Len(sections) |->
            [sections[k] EXCEPT !.keys = @ \cup {"startSeconds"},
                                !.startSeconds = IntMulFloat(k - 1, interval)]]

\* the duration test that lets the interpolation run
DurationUsable(duration) == FloatTruthy(duration)

\* a timeline policy that lets a single section through
BuildTimelineFromOne(sections, duration) ==
    IF Len(sections) < 1
    THEN [skip |-> "SkipTooFew", sections |-> sections]
    ELSE IF TimedCount(sections) < 2 /\ DurationUsable(duration)
    THEN [skip |-> "", sections |-> Interpolate(sections, duration)]
    ELSE IF TimedCount(sections) < 2
    THEN [skip |-> "SkipNoTiming", sections |-> sections]
    ELSE [skip |-> "", sections |-> sections]

\* the timeline policy of process_audio_with_url, after the fetch
BuildTimeline(sections, duration) ==
    IF Len(sections) < 2
    THEN [skip |-> "SkipTooFew", sections |-> sections]
    ELSE IF TimedCount(sections) < 2 /\ DurationUsable(duration)
    THEN [skip |-> "", sections |-> Interpolate(sections, duration)]
    ELSE IF TimedCount(sections) < 2
    THEN [skip |-> "SkipNoTiming", sections |-> sections]
    ELSE [skip |-> "", sections |-> sections]

----------------------------------------------------------------------------
(* LRC rendering *)

DigitChar(d) ==
    CASE d = 0 -> "0" [] d = 1 -> "1" [] d = 2 -> "2" [] d = 3 -> "3" [] d = 4 -> "4"
      [] d = 5 -> "5" [] d = 6 -> "6" [] d = 7 -> "7" [] d = 8 -> "8" [] OTHER -> "9"

RECURSIVE Digits(_)
Digits(n) == IF n < 10 THEN <<DigitChar(n)>> ELSE Digits(n \div 10) \o <<DigitChar(n % 10)>>

\* format spec 02d: at least two characters, zero-padded, the sign counted
PadInt2(n) ==
    IF n < 0 THEN <<"-">> \o Digits(-n)
    ELSE IF n < 10 THEN <<"0">> \o Digits(n)
    ELSE Digits(n)

\* a rational >= 0 rounded to an integer, a tie going to the even neighbour
RoundHalfEven(n, d) ==
    LET q == n \div d
        r == n % d
    IN IF 2 * r > d THEN q + 1
       ELSE IF 2 * r < d THEN q
       ELSE q + (q % 2)

\* the minutes rolled over at the hour
FormatLrcTimestampHours(seconds) ==
    LET m == seconds.num \div (60 * seconds.den)
        snum == seconds.num - 60 * m * seconds.den
        h == RoundHalfEven(100 * snum, seconds.den)
    IN <<"[">> \o PadInt2(m % 60) \o <<":">> \o PadInt2(h \div 100) \o <<".">>
       \o PadInt2(h % 100) \o <<"]">>

\* format_lrc_timestamp: m = int(seconds // 60), s = seconds % 60,
\* f"[{m:02d}:{s:05.2f}]"
FormatLrcTimestamp(seconds) ==
    LET m == seconds.num \div (60 * seconds.den)
        snum == seconds.num - 60 * m * seconds.den
        h == RoundHalfEven(100 * snum, seconds.den)
    IN <<"[">> \o PadInt2(m) \o <<":">> \o PadInt2(h \div 100) \o <<".">>
       \o PadInt2(h % 100) \o <<"]">>

\* what rendering one section raises: "" when it renders
SectionError(s) ==
    IF "__typename" \notin s.keys THEN "KeyError"
    ELSE IF s.typename = "TrackSection"
            /\ ("artistName" \notin s.keys \/ "songName" \notin s.keys)
    THEN "KeyError"
    ELSE IF "startSeconds" \notin s.keys THEN "KeyError"
    ELSE IF s.startSeconds.isNone THEN "TypeError"
    ELSE ""

\* " \u2013 ": an en dash with a space on each side
EnDash == " -- "

\* the display label of a section
TrackTitle(s) ==
    IF s.typename = "TrackSection" THEN <<s.artistName, EnDash, s.songName>>
    ELSE IF "chapter" \in s.keys THEN <<s.chapter>>
    ELSE <<"">>

\* one entry line, numbered from 0
SectionLineFromZero(i, s) ==
    FormatLrcTimestamp(s.startSeconds) \o <<" ">> \o PadInt2(i - 1) \o <<". ">>
    \o TrackTitle(s)

\* one entry line, i 1-based
SectionLine(i, s) ==
    FormatLrcTimestamp(s.startSeconds) \o <<" ">> \o PadInt2(i) \o <<". ">> \o TrackTitle(s)

RECURSIVE JoinLines(_)
\* "\n".join(lines)
JoinLines(lines) ==
    IF lines = <<>> THEN <<>>
    ELSE IF Len(lines) = 1 THEN lines[1]
    ELSE lines[1] \o <<"\n">> \o JoinLines(Tail(lines))

\* the same without the blank line after the header
GenerateLrcContentNoBlank(username, title, sections) ==
    IF \E i \in 1..Len(sections) : SectionError(sections[i]) # ""
    THEN [raised |-> TRUE, exc |-> "KeyError", text |-> <<>>]
    ELSE [raised |-> FALSE, exc |-> "",
          text |-> JoinLines(<< <<"[ar:">> \o username \o <<"]">>,
                                <<"[ti:">> \o title \o <<"]">> >>
                             \o [i \in 1..Len(sections) |-> SectionLine(i, sections[i])])
                   \o <<"\n">>]

\* generate_lrc_content: the text, or the exception of the first section
\* that does not render
GenerateLrcContent(username, title, sections) ==
    IF \E i \in 1..Len(sections) : SectionError(sections[i]) # ""
    THEN LET first == CHOOSE i \in 1..Len(sections) :
                        /\ SectionError(sections[i]) # ""
                        /\ \A j \in 1..(i - 1) : SectionError(sections[j]) = ""
         IN [raised |-> TRUE, exc |-> SectionError(sections[first]), text |-> <<>>]
    ELSE LET header == << <<"[ar:">> \o username \o <<"]">>,
                          <<"[ti:">> \o title \o <<"]">>,
                          <<>> >>
             entries == [i \in 1..Len(sections) |-> SectionLine(i, sections[i])]
         IN [raised |-> FALSE, exc |-> "",
             text |-> JoinLines(header \o entries) \o <<"\n">>]

----------------------------------------------------------------------------
(* fetch_tracklist *)

ResponseFailures ==
    {"network_error", "http_error", "data_null", "no_data_key", "lookup_null",
     "sections_null", "no_sections_key"}

Responses ==
    [kind : ResponseFailures, sections : {<<>>}]
    \cup [kind : {"ok"}, sections : SectionLists]

\* fetch_tracklist on one response of the API: None, a list, or an exception
\* that is not a RequestException
FetchTracklist(r) ==
    CASE r.kind \in {"network_error", "http_error", "no_data_key", "lookup_null",
                     "sections_null"} ->
            [raised |-> FALSE, exc |-> "", isNone |-> TRUE, sections |-> <<>>]
      [] r.kind = "data_null" ->
            \* data.get("data", {}) is None: None.get(...)
            [raised |-> TRUE, exc |-> "AttributeError", isNone |-> TRUE, sections |-> <<>>]
      [] r.kind = "no_sections_key" ->
            [raised |-> FALSE, exc |-> "", isNone |-> FALSE, sections |-> <<>>]
      [] OTHER ->
            [raised |-> FALSE, exc |-> "", isNone |-> FALSE, sections |-> r.sections]

----------------------------------------------------------------------------
(* Embedding *)

\* Path.suffix.lower()
LowerSuffix(x) ==
    CASE x = ".MP3" -> ".mp3"
      [] x = ".M4A" -> ".m4a"
      [] x = ".OGG" -> ".ogg"
      [] OTHER -> x

\* the names under which the writers store the text
UsltKey == "USLT"
Mp4LyricsKey == "(c)lyr"
OggLyricsKey == "lyrics"

Field(k, t) == [key |-> k, text |-> t]

\* ID3(), and a file without a tag block: no tag at all
FreshTags == [hasTags |-> FALSE, others |-> <<>>, lyrics |-> <<>>]

\* what running a writer with the file does: it opens (loads) and saves, or
\* the open raises, or the save raises
AttemptOutcomes == {"ok", "open_fails", "save_fails"}

\* the end of a writer's try block: `return True`, or an exception
Returned(c) == [raised |-> FALSE, ok |-> TRUE, container |-> c]
Raises(c) == [raised |-> TRUE, ok |-> FALSE, container |-> c]

\* no except clause: the exception leaves the writer
CatchNothing(r) == r

\* `except Exception ...: return False`
CatchAll(r) ==
    IF r.raised THEN [raised |-> FALSE, ok |-> FALSE, container |-> r.container] ELSE r

\* audio.add(USLT(...)) without the delall before it
ReplaceUsltKeepsOld(audio, content) ==
    [hasTags |-> TRUE, others |-> audio.others,
     lyrics |-> Append(audio.lyrics, Field(UsltKey, content))]

\* audio.delall('USLT'); audio.add(USLT(encoding=3, lang='eng', desc='', text=...))
ReplaceUslt(audio, content) ==
    [hasTags |-> TRUE, others |-> audio.others, lyrics |-> <<Field(UsltKey, content)>>]

\* the text is added as one more value of the key
SetLyricsAppends(audio, key, content) ==
    [hasTags |-> TRUE, others |-> audio.others,
     lyrics |-> Append(audio.lyrics, Field(key, content))]

\* audio.tags[key] = [content], after add_tags() when tags is None
SetLyrics(audio, key, content) ==
    [hasTags |-> TRUE,
     others |-> audio.others,
     lyrics |-> IF \E i \in 1..Len(audio.lyrics) : audio.lyrics[i].key = key
                THEN [i \in 1..Len(audio.lyrics) |->
                        IF audio.lyrics[i].key = key THEN Field(key, content)
                        ELSE audio.lyrics[i]]
                ELSE Append(audio.lyrics, Field(key, content))]

\* embed_lyrics: a tag block that does not load (there is none, or reading it
\* raises) gives the fresh ID3(); what is saved is the object in memory
EmbedLyrics(c, content, o) ==
    LET audio == IF c.hasTags /\ o # "open_fails" THEN c ELSE FreshTags
    IN CatchAll(IF o = "save_fails" THEN Raises(c)
                ELSE Returned(ReplaceUslt(audio, content)))

\* embed_lyrics_mp4
EmbedLyricsMp4(c, content, o) ==
    CatchAll(IF o # "ok" THEN Raises(c)
             ELSE Returned(SetLyrics(c, Mp4LyricsKey, content)))

\* embed_lyrics_ogg_opus
EmbedLyricsOggOpus(c, content, o) ==
    CatchAll(IF o # "ok" THEN Raises(c)
             ELSE Returned(SetLyrics(c, OggLyricsKey, content)))

\* embed_lyrics_ogg_vorbis
EmbedLyricsOggVorbis(c, content, o) ==
    CatchAll(IF o # "ok" THEN Raises(c)
             ELSE Returned(SetLyrics(c, OggLyricsKey, content)))

Attempt(w, r) == [writer |-> w, ok |-> r.ok]

\* the Vorbis writer is tried whatever the Opus writer returned
OggFallbackAlways(a) == TRUE

\* `if embed_lyrics_ogg_opus(...): return True` negated
OggFallback(a) == ~a.ok

\* every suffix that is not .mp3 or MP4 goes to the Ogg writers
IsOggSuffixAnyOther(s) == TRUE

IsOggSuffix(s) == s \in {".opus", ".ogg", ".oga"}

\* embed_lyrics_any: io.first is what the first writer tried meets, io.second
\* what the Vorbis writer meets; attempts are the writers called, in order
EmbedLyricsAny(suffix, container, content, io) ==
    LET s == LowerSuffix(suffix)
        One(w, r) == [ok |-> r.ok, raised |-> r.raised, container |-> r.container,
                      attempts |-> <<Attempt(w, r)>>]
    IN IF s = ".mp3"
       THEN One("embed_lyrics", EmbedLyrics(container, content, io.first))
       ELSE IF s \in {".m4a", ".mp4"}
       THEN One("embed_lyrics_mp4", EmbedLyricsMp4(container, content, io.first))
       ELSE IF IsOggSuffix(s)
       THEN LET a == EmbedLyricsOggOpus(container, content, io.first)
            IN IF a.raised \/ ~OggFallback(a)
               THEN One("embed_lyrics_ogg_opus", a)
               ELSE LET b == EmbedLyricsOggVorbis(a.container, content, io.second)
                    IN [ok |-> b.ok, raised |-> b.raised, container |-> b.container,
                        attempts |-> <<Attempt("embed_lyrics_ogg_opus", a),
                                       Attempt("embed_lyrics_ogg_vorbis", b)>>]
       ELSE [ok |-> FALSE, raised |-> FALSE, container |-> container, attempts |-> <<>>]

----------------------------------------------------------------------------
(* The state of a file that embed_lyrics_any is called on, and the state   *)
(* of a batch run (walk), the arguments of a call of generate_lrc_content. *)

VARIABLES
    target,      \* the file: its suffix and its tag block
    call,        \* the last call of embed_lyrics_any on it
    ncalls       \* the calls made so far

varsE == <<target, call, ncalls>>

NoCall == [made |-> FALSE]

\* no file is being embedded into
NoTarget ==
    /\ target = [suffix |-> "", container |-> FreshTags]
    /\ call = NoCall
    /\ ncalls = 0

VARIABLES
    tree,        \* what Path(root).rglob("*") yields, in order
    pos,         \* the entries the loop has handled
    calls,       \* the entries process_audio_from_tags was called on, in order
    errors       \* the entries whose processing raised and was logged

varsW == <<tree, pos, calls, errors>>

\* no directory is being walked
NoWalk ==
    /\ tree = <<>>
    /\ pos = 0
    /\ calls = <<>>
    /\ errors = <<>>

VARIABLES
    rsections,   \* the section list handed to generate_lrc_content
    rendered     \* what the call returned, once made

varsL == <<rsections, rendered>>

NotRendered == [made |-> FALSE]

\* no text is being rendered
NoRender ==
    /\ rsections = <<>>
    /\ rendered = NotRendered

VARIABLES
    seconds,     \* the time handed to format_lrc_timestamp
    stamp        \* what the call returned, once made

varsF == <<seconds, stamp>>

NotFormatted == [made |-> FALSE]

\* no time is being formatted
NoFormat ==
    /\ seconds = [isNone |-> TRUE, num |-> 0, den |-> 1]
    /\ stamp = NotFormatted

VARIABLES
    folder,      \* the names of the audio files of one directory
    written,     \* the sidecar files written: the path, and the audio file it is of
    match        \* the last call of _find_matching_audio

varsD == <<folder, written, match>>

NoMatch == [made |-> FALSE]

\* no directory is being processed
NoFolder ==
    /\ folder = {}
    /\ written = {}
    /\ match = NoMatch

VARIABLES
    catalog,     \* the user's uploads and playlists, and which fetches fail
    found_orphans \* what find_orphan_tracks returned, once called

varsO == <<catalog, found_orphans>>

NotCalled == [made |-> FALSE]

\* no catalog is being searched
NoCatalog ==
    /\ catalog = <<>>
    /\ found_orphans = NotCalled

VARIABLES
    fetcher,     \* the paginated fetcher running
    chain,       \* the pages the server holds, in order
    after_cursor, \* the cursor of the next request
    all_items,   \* the entries collected so far
    requests,    \* the cursors requested so far, in order
    returned     \* what the fetcher returned, once it has

varsP == <<fetcher, chain, after_cursor, all_items, requests, returned>>

NotReturned == [made |-> FALSE]

\* no fetcher is running
NoFetcher ==
    /\ fetcher = ""
    /\ chain = <<>>
    /\ after_cursor = 0
    /\ all_items = <<>>
    /\ requests = <<>>
    /\ returned = NotReturned

VARIABLES
    args,        \* the command line of the downloader
    playlists,   \* the playlists left, each a list of entries (one list in uploads mode)
    processed,   \* the entries of the current list handled so far
    all_downloaded, \* the tracks downloaded in this run
    mpc          \* where the run stands

varsM == <<args, playlists, processed, all_downloaded, mpc>>

\* no downloader is running
NoDownloader ==
    /\ args = <<>>
    /\ playlists = <<>>
    /\ processed = 0
    /\ all_downloaded = 0
    /\ mpc = "off"

varsX == <<varsF, varsD, varsO, varsP, varsM>>

\* none of the above is running
NoX ==
    /\ NoFormat
    /\ NoFolder
    /\ NoCatalog
    /\ NoFetcher
    /\ NoDownloader

----------------------------------------------------------------------------
(* Processing one audio file: process_audio_from_tags and                  *)
(* process_audio_with_url.                                                 *)

VARIABLES
    pc,          \* where the processing of the file stands
    entry,       \* the function called on the file
    file,        \* what mutagen's File() reads from the audio file
    embed, write_file,
    url,         \* the URL handed to process_audio_with_url
    lookup,      \* extract_lookup(url)
    audio_duration,
    fetched,     \* the tracklist as fetch_tracklist returned it
    sections,    \* the working list
    lrc_content,
    outcome,     \* "" while running, then the skip, "Done" or "Raised"
    exc,         \* the exception when outcome = "Raised"
    steps,       \* the steps run so far, in order
    container,   \* the tag block of the audio file: lyrics fields and the others
    sidecar,     \* the .lrc file beside the audio file
    response,    \* what the API answers for this file
    persisted,   \* the calls of the persist step and what they met
    run,         \* 1, or 2 when the file is processed again
    firstRun     \* where the first processing left the file

vars == <<pc, entry, file, embed, write_file, url, lookup, audio_duration, fetched,
          sections, lrc_content, outcome, exc, steps, container, sidecar, response,
          persisted, run, firstRun>>

NoTags == [isNone |-> TRUE, items |-> <<>>]
Tags(items) == [isNone |-> FALSE, items |-> items]

\* the fields whose value is empty, and the field that is not searched
EmptyFields ==
    {f \in TagFields : f.key = "TIT2" \/ f.value.items \in {<<>>, <<EmptyStr>>}}

\* the tags of the files processed
FileTagPool ==
    { NoTags, Tags(<<>>) }
    \cup {Tags(<<f>>) : f \in EmptyFields}
    \cup
    { Tags(<< [key |-> "WPUB", value |-> UrlFrame(UrlX)] >>),
      Tags(<< [key |-> "Comment", value |-> ListValue(<<UrlNoSlug>>)] >>),
      Tags(<< [key |-> "TXXX:purl", value |-> TextFrame(<<UrlA>>)] >>),
      Tags(<< [key |-> "URL", value |-> ListValue(<<UrlB>>)] >>) }

\* audio.info.length: absent, or a float
Durations == {NoneFloat, Float(0, 1), Float(600, 1), Float(-30, 1)}

Suffixes == {".mp3", ".OGG", ".wav"}

\* a file mutagen cannot identify: File() returns None
UnknownFile ==
    [openable |-> FALSE, tags |-> NoTags, duration |-> NoneFloat, suffix |-> ".wav",
     stem |-> <<"test-mix">>]

Files ==
    {UnknownFile}
    \cup [openable : {TRUE}, tags : FileTagPool, duration : Durations, suffix : Suffixes,
          stem : {<<"test-mix">>}]

\* a file whose URL the caller knows: tags play no part
DownloadedFiles == {f \in Files : f.tags = NoTags}

KnownUrls == {UrlA, UrlNoSlug, UrlX}

NoSidecar == [exists |-> FALSE, text |-> <<>>]

NotFetched == [got |-> FALSE, sections |-> <<>>]

NoResponse == [kind |-> "none", sections |-> <<>>]

NothingPersisted ==
    [embedCalled |-> FALSE, embedOk |-> FALSE, attempts |-> <<>>,
     writeCalled |-> FALSE, io |-> <<>>]

NoRun == [ended |-> FALSE]

\* the tag block as File() read it; no lyrics stored yet
ContainerOf(f) ==
    [hasTags |-> ~f.tags.isNone, others |-> f.tags.items, lyrics |-> <<>>]

Init ==
    /\ embed \in BOOLEAN
    /\ write_file \in BOOLEAN
    /\ \/ /\ entry = "process_audio_from_tags"
          /\ pc = "from_tags"
          /\ file \in Files
          /\ url = EmptyStr
       \/ /\ entry = "process_audio_with_url"
          /\ pc = "with_url"
          /\ file \in DownloadedFiles
          /\ url \in KnownUrls
    /\ lookup = NoLookup
    /\ audio_duration = NoneFloat
    /\ fetched = NotFetched
    /\ sections = <<>>
    /\ lrc_content = <<>>
    /\ outcome = ""
    /\ exc = ""
    /\ steps = <<>>
    /\ container = ContainerOf(file)
    /\ sidecar = NoSidecar
    /\ response = NoResponse
    /\ persisted = NothingPersisted
    /\ run = 1
    /\ firstRun = NoRun
    /\ tagsT = <<>>
    /\ found = NotSearched
    /\ NoTarget
    /\ NoWalk
    /\ NoRender
    /\ NoX

\* no test of what extract_lookup returned
LookupUsableAlways(l) == TRUE

\* `if not user or not slug` negated: both were extracted
LookupUsable(l) == l.ok /\ l.user # EmptyStr /\ l.slug # EmptyStr

\* the call returns (or raises): nothing else of the file runs
Finish(o, e) ==
    /\ pc' = "done"
    /\ outcome' = o
    /\ exc' = e

\* process_audio_from_tags, up to its call of process_audio_with_url
ProcessAudioFromTags ==
    /\ pc = "from_tags"
    /\ UNCHANGED <<varsT, varsE, varsW, varsL, varsX>>
    /\ UNCHANGED <<response, persisted, run, firstRun>>
    /\ UNCHANGED <<entry, file, embed, write_file, lookup, audio_duration, fetched,
                   sections, lrc_content, container, sidecar>>
    /\ IF ~embed /\ ~write_file
       THEN Finish("Nothing", "") /\ UNCHANGED <<url, steps>>
       ELSE IF ~file.openable \/ file.tags.isNone
       THEN Finish("SkipNoTags", "") /\ UNCHANGED <<url, steps>>
       ELSE LET u == ExtractMixcloudUrl(file.tags.items)
            IN /\ steps' = Append(steps, "tag_lookup")
               /\ IF ~Truthy(u)
                  THEN Finish("SkipNoUrl", "") /\ UNCHANGED url
                  ELSE /\ url' = u.s
                       /\ pc' = "with_url"
                       /\ UNCHANGED <<outcome, exc>>

\* process_audio_with_url, up to its call of fetch_tracklist
ParseUrl ==
    /\ pc = "with_url"
    /\ UNCHANGED <<varsT, varsE, varsW, varsL, varsX>>
    /\ UNCHANGED <<response, persisted, run, firstRun>>
    /\ UNCHANGED <<entry, file, embed, write_file, url, fetched, sections, lrc_content,
                   container, sidecar>>
    /\ IF ~embed /\ ~write_file
       THEN Finish("Nothing", "") /\ UNCHANGED <<lookup, audio_duration, steps>>
       ELSE IF ~file.openable
       THEN Finish("SkipUnsupported", "") /\ UNCHANGED <<lookup, audio_duration, steps>>
       ELSE /\ audio_duration' = file.duration
            /\ lookup' = ExtractLookup(url)
            /\ steps' = Append(steps, "url_parse")
            /\ IF ~LookupUsable(lookup')
               THEN Finish("SkipBadUrl", "")
               ELSE pc' = "fetch" /\ UNCHANGED <<outcome, exc>>

\* sections = fetch_tracklist(user, slug), and the test of None
Fetch ==
    /\ pc = "fetch"
    /\ UNCHANGED <<varsT, varsE, varsW, varsL, varsX>>
    /\ UNCHANGED <<persisted, run, firstRun>>
    /\ UNCHANGED <<entry, file, embed, write_file, url, lookup, audio_duration,
                   lrc_content, container, sidecar>>
    /\ steps' = Append(steps, "fetch")
    /\ \E r \in Responses :
        LET res == FetchTracklist(r)
        IN /\ run = 1 \/ r = response
           /\ response' = r
           /\ IF res.raised
              THEN Finish("Raised", res.exc) /\ UNCHANGED <<fetched, sections>>
              ELSE IF res.isNone
              THEN Finish("SkipApi", "") /\ UNCHANGED <<fetched, sections>>
              ELSE /\ fetched' = [got |-> TRUE, sections |-> res.sections]
                   /\ sections' = res.sections
                   /\ pc' = "timeline"
                   /\ UNCHANGED <<outcome, exc>>

\* the section count, the timed sections, the interpolation
Timeline ==
    /\ pc = "timeline"
    /\ UNCHANGED <<varsT, varsE, varsW, varsL, varsX>>
    /\ UNCHANGED <<response, persisted, run, firstRun>>
    /\ UNCHANGED <<entry, file, embed, write_file, url, lookup, audio_duration, fetched,
                   lrc_content, container, sidecar>>
    /\ steps' = Append(steps, "timeline")
    /\ LET t == BuildTimeline(sections, audio_duration)
       IN IF t.skip # ""
          THEN Finish(t.skip, "") /\ UNCHANGED sections
          ELSE /\ sections' = t.sections
               /\ pc' = "render"
               /\ UNCHANGED <<outcome, exc>>

\* lrc_content = generate_lrc_content(user, audio_path.stem, sections)
Render ==
    /\ pc = "render"
    /\ UNCHANGED <<varsT, varsE, varsW, varsL, varsX>>
    /\ UNCHANGED <<response, persisted, run, firstRun>>
    /\ UNCHANGED <<entry, file, embed, write_file, url, lookup, audio_duration, fetched,
                   sections, container, sidecar>>
    /\ steps' = Append(steps, "render")
    /\ LET g == GenerateLrcContent(lookup.user, file.stem, sections)
       IN IF g.raised
          THEN Finish("Raised", g.exc) /\ UNCHANGED lrc_content
          ELSE /\ lrc_content' = g.text
               /\ pc' = "persist"
               /\ UNCHANGED <<outcome, exc>>

\* `if write_file or fallback_write` without the fallback
ShouldWriteOnRequestOnly(wf, fallback_write) == wf

\* `if write_file or fallback_write`
ShouldWrite(wf, fallback_write) == wf \/ fallback_write

\* what the persist step can meet: the writers' outcomes, and whether the
\* sidecar file can be written
PersistIO == [first : AttemptOutcomes, second : AttemptOutcomes, write : BOOLEAN]

\* the same, with "ok" for a writer that is not called
PersistIOFor(emb, suffix) ==
    LET s == LowerSuffix(suffix)
        calledFirst == emb /\ (s \in {".mp3", ".m4a", ".mp4"} \/ IsOggSuffix(s))
    IN {io \in PersistIO :
          /\ ~calledFirst => io.first = "ok"
          /\ ~(calledFirst /\ IsOggSuffix(s) /\ io.first # "ok") => io.second = "ok"}

\* the embedding, the sidecar file
Persist ==
    /\ pc = "persist"
    /\ UNCHANGED <<varsT, varsE, varsW, varsL, varsX>>
    /\ UNCHANGED <<entry, file, embed, write_file, url, lookup, audio_duration, fetched,
                   sections, lrc_content, response, run, firstRun>>
    /\ steps' = Append(steps, "persist")
    /\ \E io \in PersistIOFor(embed, file.suffix) :
        LET e == IF embed THEN EmbedLyricsAny(file.suffix, container, lrc_content, io)
                 ELSE [ok |-> FALSE, raised |-> FALSE, container |-> container,
                       attempts |-> <<>>]
            fallback_write == embed /\ ~e.ok
            writes == ~e.raised /\ ShouldWrite(write_file, fallback_write)
        IN /\ container' = e.container
           /\ persisted' = [embedCalled |-> embed, embedOk |-> e.ok,
                            attempts |-> e.attempts, writeCalled |-> writes, io |-> io]
           /\ IF e.raised
              THEN /\ UNCHANGED sidecar
                   /\ Finish("Raised", "Exception")
              ELSE IF writes
              THEN IF io.write
                   THEN /\ sidecar' = [exists |-> TRUE, text |-> lrc_content]
                        /\ Finish("Done", "")
                   ELSE /\ UNCHANGED sidecar
                        /\ Finish("Raised", "OSError")
              ELSE /\ UNCHANGED sidecar
                   /\ Finish("Done", "")

Next ==
    \/ ProcessAudioFromTags
    \/ ParseUrl
    \/ Fetch
    \/ Timeline
    \/ Render
    \/ Persist

Spec == Init /\ [][Next]_<<vars, varsT, varsE, varsW, varsL, varsX>>

----------------------------------------------------------------------------
(* The tag locator on its own: a tag mapping is written field by field,    *)
(* then searched.                                                          *)

\* no file is being processed
NoFile ==
    /\ pc = "done"
    /\ entry = ""
    /\ file = UnknownFile
    /\ embed = FALSE
    /\ write_file = FALSE
    /\ url = EmptyStr
    /\ lookup = NoLookup
    /\ audio_duration = NoneFloat
    /\ fetched = NotFetched
    /\ sections = <<>>
    /\ lrc_content = <<>>
    /\ outcome = "Nothing"
    /\ exc = ""
    /\ steps = <<>>
    /\ container = FreshTags
    /\ sidecar = NoSidecar
    /\ response = NoResponse
    /\ persisted = NothingPersisted
    /\ run = 1
    /\ firstRun = NoRun

InitT ==
    /\ tagsT = <<>>
    /\ found = NotSearched
    /\ NoFile
    /\ NoTarget
    /\ NoWalk
    /\ NoRender
    /\ NoX

\* tags[key] = value on a dict: a new key goes last, a known key keeps its place
SetTag(tags, f) ==
    IF HasKey(tags, f.key)
    THEN [i \in 1..Len(tags) |-> IF tags[i].key = f.key THEN f ELSE tags[i]]
    ELSE Append(tags, f)

WriteTag ==
    \E f \in TagFields :
        /\ HasKey(tagsT, f.key) \/ Len(tagsT) < MaxTags
        /\ tagsT' = SetTag(tagsT, f)
        /\ found' = NotSearched
        /\ UNCHANGED <<vars, varsE, varsW, varsL, varsX>>

Locate ==
    /\ ~found.done
    /\ found' = [done |-> TRUE, url |-> ExtractMixcloudUrl(tagsT)]
    /\ UNCHANGED tagsT
    /\ UNCHANGED <<vars, varsE, varsW, varsL, varsX>>

NextT == WriteTag \/ Locate

SpecT == InitT /\ [][NextT]_<<vars, varsT, varsE, varsW, varsL, varsX>>

----------------------------------------------------------------------------
(* embed_lyrics_any on its own: a file with a tag block is embedded into,  *)
(* once or several times.                                                  *)

\* the texts embedded, and the text of a lyrics field found in the file
TextA == <<"[ar:a]", "\n">>
TextB == <<"[ar:b]", "\n">>
TextOld == <<"old lyrics">>
Contents == {TextA, TextB}

EmbedSuffixes ==
    {".mp3", ".MP3", ".m4a", ".M4A", ".mp4", ".opus", ".ogg", ".OGG", ".oga", ".wav", ""}

\* the key under which a file of this suffix holds lyrics
LyricsKeyOf(suffix) ==
    LET s == LowerSuffix(suffix)
    IN IF s = ".mp3" THEN UsltKey
       ELSE IF s \in {".m4a", ".mp4"} THEN Mp4LyricsKey
       ELSE OggLyricsKey

\* the tags of the file that are not lyrics
OtherTagPool ==
    { <<>>,
      <<Field("title", <<"Test Mix">>)>>,
      <<Field("title", <<"Test Mix">>), Field("purl", UrlA)>> }

\* the lyrics fields a file can hold before the call: ID3 keeps several
\* USLT frames (one per language and description), a dict holds one key once
OldLyrics(suffix) ==
    LET k == LyricsKeyOf(suffix)
        n == IF k = UsltKey THEN MaxLyrics ELSE 1
    IN {[i \in 1..m |-> Field(k, TextOld)] : m \in 0..n}

EmbedTargets ==
    {[suffix |-> x, container |-> FreshTags] : x \in EmbedSuffixes}
    \cup
    UNION {[suffix : {x},
            container : [hasTags : {TRUE}, others : OtherTagPool, lyrics : OldLyrics(x)]]
           : x \in EmbedSuffixes}

InitE ==
    /\ target \in EmbedTargets
    /\ call = NoCall
    /\ ncalls = 0
    /\ NoFile
    /\ tagsT = <<>>
    /\ found = NotSearched
    /\ NoWalk
    /\ NoRender
    /\ NoX

\* one call embed_lyrics_any(audio_path, lrc_content)
EmbedCall ==
    /\ ncalls < MaxCalls
    /\ \E content \in Contents, io \in [first : AttemptOutcomes, second : AttemptOutcomes] :
        LET r == EmbedLyricsAny(target.suffix, target.container, content, io)
        IN /\ target' = [target EXCEPT !.container = r.container]
           /\ call' = [made |-> TRUE, content |-> content, io |-> io, ok |-> r.ok,
                       raised |-> r.raised, attempts |-> r.attempts,
                       before |-> target.container]
    /\ ncalls' = ncalls + 1
    /\ UNCHANGED <<vars, varsT, varsW, varsL, varsX>>

NextE == EmbedCall

SpecE == InitE /\ [][NextE]_<<vars, varsT, varsE, varsW, varsL, varsX>>

----------------------------------------------------------------------------
(* Properties of the processing of one file (under Spec)                   *)

InSteps(s) == \E i \in 1..Len(steps) : steps[i] = s

IsPrefix(s, t) == Len(s) <= Len(t) /\ \A i \in 1..Len(s) : s[i] = t[i]

\* C1: whenever processing reaches the rendering, every section of the
\* working list has a non-null startSeconds.
C1_TimedAtRender ==
    InSteps("render") =>
        \A k \in 1..Len(sections) :
            "startSeconds" \in sections[k].keys /\ ~sections[k].startSeconds.isNone

\* C2: processing one file ends in a skip or in Done; it never ends by an
\* exception that the shape of the tag or API data causes (the one exception
\* left is the I/O error of the sidecar write).
C2_NoDataShapeException ==
    outcome = "Raised" => exc = "OSError"

\* C3: with at least 2 sections fetched, fewer than 2 of them timed and a
\* positive audio duration d, every section i (0-based) of the working list
\* carries i * (d / n) once the timeline is built, a section that came with
\* a timestamp included; d = 600 and n = 3 give 0, 200, 400.
C3_Interpolation ==
    ( /\ InSteps("timeline")
      /\ Len(fetched.sections) >= 2
      /\ Cardinality({k \in 1..Len(fetched.sections) :
                        /\ "startSeconds" \in fetched.sections[k].keys
                        /\ ~fetched.sections[k].startSeconds.isNone}) < 2
      /\ ~audio_duration.isNone
      /\ audio_duration.num > 0 )
    => /\ outcome \in {"", "Done", "Raised"}
       /\ Len(sections) = Len(fetched.sections)
       /\ \A k \in 1..Len(sections) :
            LET st == sections[k].startSeconds
            IN /\ "startSeconds" \in sections[k].keys
               /\ ~st.isNone
               /\ st.num * Len(sections) * audio_duration.den
                    = (k - 1) * audio_duration.num * st.den
       /\ (audio_duration = [isNone |-> FALSE, num |-> 600, den |-> 1]
           /\ Len(sections) = 3)
          => [k \in 1..3 |-> <<sections[k].startSeconds.num, sections[k].startSeconds.den>>]
                = << <<0, 1>>, <<200, 1>>, <<400, 1>> >>

\* C3 witness: 600 s over three sections, the second of which came with the
\* timestamp 180.5, are rendered from 0, 200, 400.
C3_Witness ==
    /\ pc = "persist"
    /\ audio_duration = [isNone |-> FALSE, num |-> 600, den |-> 1]
    /\ Len(sections) = 3
    /\ fetched.sections[2].startSeconds = [isNone |-> FALSE, num |-> 361, den |-> 2]
    /\ sections[2].startSeconds = [isNone |-> FALSE, num |-> 200, den |-> 1]
    /\ sections[3].startSeconds = [isNone |-> FALSE, num |-> 400, den |-> 1]

\* C4: with fewer than 2 timed sections and an audio duration that is
\* absent, zero or negative, processing ends in the no-timing-data skip:
\* no timestamp is derived, nothing is embedded, no sidecar is written.
C4_OnlyPositiveDurationInterpolates ==
    ( /\ InSteps("timeline")
      /\ Len(fetched.sections) >= 2
      /\ Cardinality({k \in 1..Len(fetched.sections) :
                        /\ "startSeconds" \in fetched.sections[k].keys
                        /\ ~fetched.sections[k].startSeconds.isNone}) < 2
      /\ (audio_duration.isNone \/ audio_duration.num <= 0) )
    => /\ outcome = "SkipNoTiming"
       /\ sections = fetched.sections
       /\ container.lyrics = <<>>
       /\ ~sidecar.exists

\* C5: a fetched tracklist of 0 or 1 sections ends in the too-few-sections
\* skip whatever the duration and the timestamps: nothing is rendered,
\* embedded or written.
C5_TooFewSections ==
    (InSteps("timeline") /\ Len(fetched.sections) < 2)
    => /\ pc = "done"
       /\ outcome = "SkipTooFew"
       /\ ~InSteps("render")
       /\ ~InSteps("persist")
       /\ sections = fetched.sections
       /\ lrc_content = <<>>
       /\ container.lyrics = <<>>
       /\ ~sidecar.exists

\* C5 witness: one section with a timestamp, a duration of 600 s, skipped.
C5_Witness ==
    /\ outcome = "SkipTooFew"
    /\ Len(fetched.sections) = 1
    /\ ~fetched.sections[1].startSeconds.isNone
    /\ audio_duration = [isNone |-> FALSE, num |-> 600, den |-> 1]

\* every spelling of a searched field name that a tag mapping may hold
FieldSpellings ==
    {"TXXX:purl", "txxx:PURL", "WXXX:purl", "wXxX:pUrL", "WPUB", "WOAS", "Woas",
     "purl", "PURL", "url", "URL", "comment", "Comment"}

\* C9: tags without a searched field, or whose searched fields hold an empty
\* value, yield no URL and no exception: process_audio_from_tags ends in the
\* no-URL skip after the tag lookup; with absent tags it ends in the no-tags
\* skip; in neither case is a tracklist fetched.
C9_UnusableTagsSkip ==
    (pc = "done" /\ entry = "process_audio_from_tags" /\ (embed \/ write_file))
    => /\ (~file.openable \/ file.tags.isNone)
            => (outcome = "SkipNoTags" /\ steps = <<>> /\ exc = "")
       /\ ( /\ file.openable
            /\ ~file.tags.isNone
            /\ \A i \in 1..Len(file.tags.items) :
                  \/ file.tags.items[i].key \notin FieldSpellings
                  \/ file.tags.items[i].value.items \in {<<>>, <<EmptyStr>>} )
            => (outcome = "SkipNoUrl" /\ steps = <<"tag_lookup">> /\ exc = "")

\* C9 witness: a file whose TXXX:purl frame holds an empty text list was
\* skipped for having no URL.
C9_Witness ==
    /\ outcome = "SkipNoUrl"
    /\ file.tags.items = << [key |-> "TXXX:purl", value |-> TextFrame(<<>>)] >>

StepOrder == <<"tag_lookup", "url_parse", "fetch", "timeline", "render", "persist">>

\* C10: the steps run at most once each and in the order tag lookup, URL
\* parse, fetch, timeline, render, persist; the fetch runs only with a
\* username and a slug extracted; a step that fails is the last step run.
C10_StepsOnceInOrder ==
    /\ IF entry = "process_audio_from_tags" THEN IsPrefix(steps, StepOrder)
       ELSE IsPrefix(steps, Tail(StepOrder))
    /\ InSteps("fetch") => (lookup.ok /\ lookup.user # <<>> /\ lookup.slug # <<>>)
    /\ (outcome # "") <=> (pc = "done")
    /\ outcome \in {"Nothing", "SkipNoTags", "SkipUnsupported"} => steps = <<>>
    /\ outcome = "SkipNoUrl" => steps[Len(steps)] = "tag_lookup"
    /\ outcome = "SkipBadUrl" => steps[Len(steps)] = "url_parse"
    /\ outcome = "SkipApi" => steps[Len(steps)] = "fetch"
    /\ outcome \in {"SkipTooFew", "SkipNoTiming"} => steps[Len(steps)] = "timeline"
    /\ outcome = "Done" => steps[Len(steps)] = "persist"
    /\ outcome = "Raised" => steps[Len(steps)] \in {"fetch", "render", "persist"}

\* C10 witness: a file processed from its tags through every step.
C10_Witness ==
    /\ outcome = "Done"
    /\ steps = StepOrder

----------------------------------------------------------------------------
(* Properties of the tag locator (under SpecT)                             *)

\* the text a field holds once normalized, and whether it carries the domain
TextOf(k) == NormalizeTagValue(GetTagValue(tagsT, k))
HasDomainText(k) ==
    /\ ~TextOf(k).isNone
    /\ TextOf(k).s # <<>>
    /\ \E i \in 1..Len(TextOf(k).s) : TextOf(k).s[i] = "mixcloud.com"

RECURSIVE FirstWithDomain(_)
\* the text of the first field of `order` that carries the domain, else None
FirstWithDomain(order) ==
    IF order = <<>> THEN NoneStr
    ELSE IF HasDomainText(Head(order)) THEN TextOf(Head(order))
    ELSE FirstWithDomain(Tail(order))

\* the field exists and its value is a non-empty text
HoldsText(k) ==
    /\ GetTagValue(tagsT, k).items # <<>>
    /\ GetTagValue(tagsT, k).items[1] # EmptyStr

RECURSIVE FirstNonEmpty(_)
\* the text of the first field of `order` that holds a non-empty text
FirstNonEmpty(order) ==
    IF order = <<>> THEN NoneStr
    ELSE IF HoldsText(Head(order)) THEN TextOf(Head(order))
    ELSE FirstNonEmpty(Tail(order))

StructuredFields == {"TXXX:purl", "WXXX:purl", "purl", "url", "WPUB", "WOAS"}

\* C6 as claimed: the fields are searched in the order purl frames, plain
\* purl / url, WPUB / WOAS, comment, and the first that matches is returned.
C6_PlainBeforeLegacyFrames ==
    found.done =>
        found.url = FirstWithDomain(<<"TXXX:purl", "WXXX:purl", "purl", "url",
                                      "WPUB", "WOAS", "comment">>)

\* C6 as amended: the fields are searched in the order TXXX:purl, WXXX:purl,
\* WPUB, WOAS, then plain purl, url, then comment, and the first that matches
\* is returned: a WPUB or WOAS frame wins over a plain purl or url field.
C6_LegacyFramesBeforePlain ==
    found.done =>
        /\ found.url = FirstWithDomain(<<"TXXX:purl", "WXXX:purl", "WPUB", "WOAS",
                                         "purl", "url", "comment">>)
        /\ \A w \in {"WPUB", "WOAS"}, q \in {"purl", "url"} :
              ( /\ HasDomainText(w)
                /\ HasDomainText(q)
                /\ ~HasDomainText("TXXX:purl")
                /\ ~HasDomainText("WXXX:purl") )
              => found.url \in {TextOf("WPUB"), TextOf("WOAS")}

\* C6 witness: a plain purl field and a WPUB frame hold different URLs and
\* the frame's URL was returned.
C6_Witness ==
    /\ found.done
    /\ TextOf("purl") = SomeStr(UrlA)
    /\ TextOf("WPUB") = SomeStr(UrlB)
    /\ found.url = SomeStr(UrlB)

\* C7 as claimed: a structured field that holds a non-empty value is returned
\* as the first match whether or not its text carries the domain; the domain
\* is tested on the comment alone.
C7_DomainTestOnCommentOnly ==
    found.done =>
        ((\E k \in StructuredFields : HoldsText(k))
            => found.url = FirstNonEmpty(<<"TXXX:purl", "WXXX:purl", "WPUB", "WOAS",
                                           "purl", "url">>))

\* C7 as amended: the domain is tested on every field: a structured field
\* whose text lacks it is passed over like an absent one, the comment is
\* consulted after all structured fields and returned only if it carries the
\* domain, and what is returned always carries it.
C7_DomainTestOnEveryField ==
    found.done =>
        /\ ~found.url.isNone =>
              \E i \in 1..Len(found.url.s) : found.url.s[i] = "mixcloud.com"
        /\ (\E k \in StructuredFields : HasDomainText(k))
              => \E k \in StructuredFields : HasDomainText(k) /\ found.url = TextOf(k)
        /\ ((\A k \in StructuredFields : ~HasDomainText(k)) /\ HasDomainText("comment"))
              => found.url = TextOf("comment")
        /\ (\A k \in StructuredFields \cup {"comment"} : ~HasDomainText(k))
              => found.url.isNone

\* C7 witness: a WPUB frame with the URL of another site was passed over
\* and the comment, which carries the domain, was returned.
C7_Witness ==
    /\ found.done
    /\ TextOf("WPUB") = SomeStr(UrlX)
    /\ TextOf("comment") = SomeStr(UrlA)
    /\ found.url = SomeStr(UrlA)

\* the tag mapping holds the text u in one searched field, spelled in any
\* letter case, and no other searched field
StoredAlone(u) ==
    \E i \in 1..Len(tagsT) :
        /\ tagsT[i].key \in FieldSpellings
        /\ tagsT[i].value.items = <<u>>
        /\ \A j \in 1..Len(tagsT) : j # i => tagsT[j].key \notin FieldSpellings

\* C8 as claimed: every URL string stored in one of the four field types,
\* under any letter case of the field name, is returned exactly.
C8_RoundTripAnyUrl ==
    found.done => \A u \in {UrlA, UrlB, UrlX} : StoredAlone(u) => found.url = SomeStr(u)

\* C8 as amended: every URL string that contains "mixcloud.com", stored in
\* one of the four field types under any letter case of the field name, is
\* returned exactly.
C8_RoundTripMixcloudUrl ==
    found.done => \A u \in {UrlA, UrlB} : StoredAlone(u) => found.url = SomeStr(u)

\* C8 witness: the URL stored in a WXXX:purl frame spelled wXxX:pUrL, beside
\* a title frame, was recovered.
C8_Witness ==
    /\ found.done
    /\ Len(tagsT) = 2
    /\ \E i \in 1..2 : tagsT[i] = [key |-> "wXxX:pUrL", value |-> UrlFrame(UrlB)]
    /\ \E i \in 1..2 : tagsT[i].key = "TIT2"
    /\ found.url = SomeStr(UrlB)

----------------------------------------------------------------------------
(* Properties of the skips and of the persist step (under Spec)            *)

SkipOutcomes ==
    {"SkipNoTags", "SkipNoUrl", "SkipUnsupported", "SkipBadUrl", "SkipApi", "SkipTooFew",
     "SkipNoTiming"}

\* the conditions under which the file is skipped, from what was read
SkipCause ==
    \/ InSteps("tag_lookup") /\ ~InSteps("url_parse")
    \/ InSteps("url_parse") /\ (~lookup.ok \/ lookup.user = EmptyStr \/ lookup.slug = EmptyStr)
    \/ InSteps("fetch") /\ ~fetched.got /\ outcome # "Raised"
    \/ fetched.got /\ Len(fetched.sections) < 2
    \/ /\ fetched.got
       /\ Cardinality({k \in 1..Len(fetched.sections) :
                        /\ "startSeconds" \in fetched.sections[k].keys
                        /\ ~fetched.sections[k].startSeconds.isNone}) < 2
       /\ (audio_duration.isNone \/ audio_duration.num = 0)

\* C11: when the processing of a file has ended in a skip (no URL in the
\* tags, malformed URL, API error or content not found, fewer than 2
\* sections, no timing data), the tag block of the audio file is as it was
\* read, it holds no lyrics field, and there is no sidecar file.
C11_SkipLeavesFileAlone ==
    (pc = "done" /\ (outcome \in SkipOutcomes \/ SkipCause))
    => /\ outcome \in SkipOutcomes
       /\ container.hasTags = ~file.tags.isNone
       /\ container.others = file.tags.items
       /\ container.lyrics = <<>>
       /\ sidecar = [exists |-> FALSE, text |-> <<>>]
       /\ ~persisted.embedCalled
       /\ ~persisted.writeCalled

\* C11 witness: a file whose tracklist came with one section was skipped.
C11_Witness ==
    /\ pc = "done"
    /\ outcome = "SkipTooFew"
    /\ embed
    /\ write_file
    /\ Len(fetched.sections) = 1
    /\ container.others # <<>>

\* C12: in the persist step the embedding is attempted exactly when embed
\* was requested, and the sidecar file is written exactly when write_file
\* was requested or the embedding was requested and did not succeed; with
\* a successful embedding and write_file false there is no sidecar file.
C12_PersistPolicy ==
    InSteps("persist") =>
        /\ persisted.embedCalled = embed
        /\ (persisted.attempts # <<>>) => embed
        /\ persisted.writeCalled = (write_file \/ (embed /\ ~persisted.embedOk))
        /\ sidecar.exists = (persisted.writeCalled /\ persisted.io.write)
        /\ (embed /\ persisted.embedOk /\ ~write_file) => ~sidecar.exists
        /\ sidecar.exists => sidecar.text = lrc_content

\* C12 witness: the embedding was requested and failed, write_file was not
\* requested, and the sidecar file was written in its place.
C12_Witness ==
    /\ pc = "done"
    /\ outcome = "Done"
    /\ embed
    /\ ~write_file
    /\ persisted.attempts # <<>>
    /\ ~persisted.embedOk
    /\ sidecar.exists

----------------------------------------------------------------------------
(* Properties of embed_lyrics_any (under SpecE)                            *)

Mp3Spellings == {".mp3", ".MP3"}
Mp4Spellings == {".m4a", ".M4A", ".mp4"}
OggSpellings == {".opus", ".ogg", ".OGG", ".oga"}

\* what the k-th writer called met
Met(k) == IF k = 1 THEN call.io.first ELSE call.io.second

FieldsUnder(key) ==
    {i \in 1..Len(target.container.lyrics) : target.container.lyrics[i].key = key}

\* C14: the writer is chosen from the lower-cased suffix alone: .mp3 stores
\* a USLT frame, .m4a and .mp4 the MP4 lyrics atom, .opus/.ogg/.oga the
\* comment key lyrics; for every other suffix the call returns false with
\* no writer called and the file as it was.
C14_WriterBySuffix ==
    call.made =>
        LET x == target.suffix
            first == call.attempts[1].writer
            stored(key) ==
                call.ok => \E i \in FieldsUnder(key) :
                              target.container.lyrics[i].text = call.content
        IN /\ x \in Mp3Spellings =>
                /\ Len(call.attempts) = 1 /\ first = "embed_lyrics"
                /\ stored("USLT")
           /\ x \in Mp4Spellings =>
                /\ Len(call.attempts) = 1 /\ first = "embed_lyrics_mp4"
                /\ stored("(c)lyr")
           /\ x \in OggSpellings =>
                /\ first = "embed_lyrics_ogg_opus"
                /\ stored("lyrics")
           /\ x \notin (Mp3Spellings \cup Mp4Spellings \cup OggSpellings) =>
                /\ ~call.ok
                /\ call.attempts = <<>>
                /\ target.container = call.before

\* C14 witness: a call on a .wav file that holds tags returned false.
C14_Witness ==
    /\ call.made
    /\ target.suffix = ".wav"
    /\ target.container.hasTags
    /\ target.container.others # <<>>
    /\ ~call.ok

\* C15: on a .opus/.ogg/.oga file the Opus writer is called first and the
\* Vorbis writer is called exactly when the Opus writer failed (on open or
\* on save); the call returns true exactly when one of the two succeeded,
\* and then exactly one writer stored the text, under the key lyrics.
C15_OpusThenVorbis ==
    (call.made /\ target.suffix \in OggSpellings) =>
        LET n == Len(call.attempts)
            succeeded == {k \in 1..n : call.attempts[k].ok}
        IN /\ n \in {1, 2}
           /\ call.attempts[1].writer = "embed_lyrics_ogg_opus"
           /\ call.attempts[1].ok = (call.io.first = "ok")
           /\ (n = 2) = (call.io.first # "ok")
           /\ n = 2 => /\ call.attempts[2].writer = "embed_lyrics_ogg_vorbis"
                       /\ call.attempts[2].ok = (call.io.second = "ok")
           /\ call.ok = (succeeded # {})
           /\ Cardinality(succeeded) <= 1
           /\ call.ok => target.container.lyrics = <<[key |-> "lyrics", text |-> call.content]>>

\* C15 witness: the Opus writer failed on save, the Vorbis writer stored
\* the text.
C15_Witness ==
    /\ call.made
    /\ target.suffix = ".oga"
    /\ call.io = [first |-> "save_fails", second |-> "ok"]
    /\ call.ok
    /\ Len(call.attempts) = 2
    /\ call.before.lyrics # <<>>

\* C16: after a successful call the file holds exactly one lyrics field and
\* its text is the text of that call, whatever lyrics fields the file held
\* before: an earlier call's field, or several USLT frames.
C16_IdempotentOverwrite ==
    (call.made /\ call.ok) =>
        /\ Len(target.container.lyrics) = 1
        /\ target.container.lyrics[1].text = call.content
        /\ target.container.lyrics[1].key \in {"USLT", "(c)lyr", "lyrics"}

\* C16 witness: the second call on an mp3 file replaced the text the first
\* call stored.
C16_Witness ==
    /\ ncalls = 2
    /\ call.made
    /\ call.ok
    /\ target.suffix = ".mp3"
    /\ call.before.lyrics = <<[key |-> "USLT", text |-> TextA]>>
    /\ target.container.lyrics = <<[key |-> "USLT", text |-> TextB]>>

\* C17: a successful call changes the lyrics field only: every other tag of
\* the file is there with the same value after it, also when the mp3
\* writer's load of the existing tags failed.
C17_OtherTagsPreserved ==
    (call.made /\ call.ok) => target.container.others = call.before.others

----------------------------------------------------------------------------
(* Processing the same file a second time (process_mp3 called again, a     *)
(* second batch run): the tags are read from the file as the first         *)
(* processing left it, the API answers as before.                          *)

\* the tags File() reads from the file now
TagsNow(c) == IF c.hasTags THEN Tags(c.others) ELSE NoTags

Rerun ==
    /\ pc = "done"
    /\ run = 1
    /\ entry # ""
    /\ run' = 2
    /\ firstRun' = [ended |-> TRUE, outcome |-> outcome, container |-> container,
                    sidecar |-> sidecar, io |-> persisted.io]
    /\ file' = [file EXCEPT !.tags = TagsNow(container)]
    /\ pc' = IF entry = "process_audio_from_tags" THEN "from_tags" ELSE "with_url"
    /\ url' = IF entry = "process_audio_from_tags" THEN EmptyStr ELSE url
    /\ lookup' = NoLookup
    /\ audio_duration' = NoneFloat
    /\ fetched' = NotFetched
    /\ sections' = <<>>
    /\ lrc_content' = <<>>
    /\ outcome' = ""
    /\ exc' = ""
    /\ steps' = <<>>
    /\ persisted' = NothingPersisted
    /\ UNCHANGED <<entry, embed, write_file, container, sidecar, response>>
    /\ UNCHANGED <<varsT, varsE, varsW, varsL, varsX>>

\* the files processed twice: with a readable URL tag, with a URL tag that
\* does not parse, or downloaded from a known URL
RerunFiles ==
    {f \in Files :
        /\ f.openable
        /\ f.duration \in {NoneFloat, Float(600, 1)}
        /\ f.suffix \in {".mp3", ".OGG"}
        /\ f.tags \in {NoTags,
                       Tags(<< [key |-> "TXXX:purl", value |-> TextFrame(<<UrlA>>)] >>),
                       Tags(<< [key |-> "Comment", value |-> ListValue(<<UrlNoSlug>>)] >>)}}

InitR ==
    /\ Init
    /\ file \in RerunFiles
    /\ entry = "process_audio_with_url" => url = UrlA

NextR ==
    \/ ProcessAudioFromTags
    \/ ParseUrl
    \/ Fetch
    \/ Timeline
    \/ Render
    \/ Persist
    \/ Rerun

SpecR == InitR /\ [][NextR]_<<vars, varsT, varsE, varsW, varsL, varsX>>

----------------------------------------------------------------------------
(* Properties of the second processing (under SpecR)                       *)

----------------------------------------------------------------------------
(* A batch run: walk(root) over what rglob("*") yields.                    *)

SUPPORTED_AUDIO_EXTS == {".mp3", ".m4a", ".mp4", ".opus", ".ogg", ".oga"}

\* the names met: audio files, an upper-case spelling, a sidecar file, a
\* name without suffix
WalkSuffixes == {".mp3", ".M4A", ".oga", ".lrc", ""}

\* a path: a regular file or not (a directory), and its suffix
WalkEntries == [isFile : BOOLEAN, suffix : WalkSuffixes]

Trees == UNION {[1..n -> WalkEntries] : n \in 0..MaxTree}

InitW ==
    /\ tree \in Trees
    /\ pos = 0
    /\ calls = <<>>
    /\ errors = <<>>
    /\ NoFile
    /\ tagsT = <<>>
    /\ found = NotSearched
    /\ NoTarget
    /\ NoRender
    /\ NoX

\* the exception of one file leaves the loop
NextPathAbortsOnError(p, n, raised) == IF raised THEN n ELSE p + 1

\* the try/except is inside the loop body: the loop goes on with the next path
NextPath(p, n, raised) == p + 1

\* one iteration of the loop of walk; process_audio_from_tags returns or raises
WalkStep ==
    /\ pos < Len(tree)
    /\ LET i == pos + 1
           path == tree[i]
       IN IF ~path.isFile \/ LowerSuffix(path.suffix) \notin SUPPORTED_AUDIO_EXTS
          THEN /\ pos' = i
               /\ UNCHANGED <<calls, errors>>
          ELSE \E raised \in BOOLEAN :
                /\ calls' = Append(calls, i)
                /\ errors' = IF raised THEN Append(errors, i) ELSE errors
                /\ pos' = NextPath(pos, Len(tree), raised)
    /\ UNCHANGED tree
    /\ UNCHANGED <<vars, varsT, varsE, varsL, varsX>>

NextW == WalkStep

SpecW == InitW /\ [][NextW]_<<vars, varsT, varsE, varsW, varsL, varsX>>

----------------------------------------------------------------------------
(* Properties of the batch run (under SpecW)                               *)

SupportedSpellings == {".mp3", ".M4A", ".oga"}

Eligible(i) == tree[i].isFile /\ tree[i].suffix \in SupportedSpellings

TimesCalled(i) == Cardinality({k \in 1..Len(calls) : calls[k] = i})

\* C19: in a batch run process_audio_from_tags is called exactly once, in
\* the order met, on every regular file whose lower-cased suffix is a
\* supported audio extension, and on no other path; a file whose
\* processing raised is logged and the files after it are processed.
C19_EverySupportedFileOnce ==
    /\ pos \in 0..Len(tree)
    /\ \A i \in 1..Len(tree) :
        TimesCalled(i) = IF i <= pos /\ Eligible(i) THEN 1 ELSE 0
    /\ \A k \in 1..Len(calls) : \A l \in 1..Len(calls) : k < l => calls[k] < calls[l]
    /\ \A k \in 1..Len(errors) : TimesCalled(errors[k]) = 1

\* C19 witness: the first file raised, a directory named like an audio file
\* was passed over, the file after it was processed.
C19_Witness ==
    /\ Len(tree) = 3
    /\ pos = 3
    /\ tree[2] = [isFile |-> FALSE, suffix |-> ".mp3"]
    /\ errors = <<1>>
    /\ calls = <<1, 3>>

----------------------------------------------------------------------------
(* generate_lrc_content on its own: section lists of up to MaxLines        *)
(* sections, made of one or two sections of the pool repeated in turn.     *)

\* the sections repeated: one, or two in either order of their timestamps
Patterns == UNION {[1..n -> SectionPool] : n \in 1..2}

Repeated(p, n) == [i \in 1..n |-> p[((i - 1) % Len(p)) + 1]]

RenderInputs == {Repeated(p, n) : p \in Patterns, n \in 0..MaxLines}

InitL ==
    /\ rsections \in RenderInputs
    /\ rendered = NotRendered
    /\ NoFile
    /\ tagsT = <<>>
    /\ found = NotSearched
    /\ NoTarget
    /\ NoWalk
    /\ NoX

\* one call generate_lrc_content(username, title, sections)
RenderText ==
    /\ ~rendered.made
    /\ LET g == GenerateLrcContent(<<"dj">>, <<"test-mix">>, rsections)
       IN rendered' = [made |-> TRUE, raised |-> g.raised, exc |-> g.exc, text |-> g.text]
    /\ UNCHANGED rsections
    /\ UNCHANGED <<vars, varsT, varsE, varsW, varsX>>

NextL == RenderText

SpecL == InitL /\ [][NextL]_<<vars, varsT, varsE, varsW, varsL, varsX>>

----------------------------------------------------------------------------
(* Properties of the rendered text (under SpecL)                           *)

\* the position after the first line break at or after p
AfterBreak(text, p) ==
    1 + CHOOSE i \in p..Len(text) :
            text[i] = "\n" /\ \A j \in p..(i - 1) : text[j] # "\n"

RECURSIVE LineStarts(_, _, _)
\* the positions at which the first n lines and the text after them start
LineStarts(text, n, acc) ==
    IF n = 0 THEN acc
    ELSE LineStarts(text, n - 1, Append(acc, AfterBreak(text, acc[Len(acc)])))

\* the part of an entry line after its timestamp
AfterStamp(line) ==
    LET close == CHOOSE i \in 1..Len(line) :
                    line[i] = "]" /\ \A j \in 1..(i - 1) : line[j] # "]"
    IN SubSeq(line, close + 1, Len(line))

\* the label of a section, from its fields
LabelOf(s) ==
    IF s.typename = "TrackSection" THEN <<s.artistName, " -- ", s.songName>>
    ELSE IF "chapter" \in s.keys THEN <<s.chapter>>
    ELSE <<"">>

\* the whole minutes of a timestamp as two characters, below 100 minutes
MinuteChars(t) ==
    LET m == t.num \div (60 * t.den)
    IN <<DigitChar(m \div 10), DigitChar(m % 10)>>

\* the decimal digits of k, for k below 1000
Decimal(k) ==
    IF k < 10 THEN <<DigitChar(k)>>
    ELSE IF k < 100 THEN <<DigitChar(k \div 10), DigitChar(k % 10)>>
    ELSE <<DigitChar(k \div 100), DigitChar((k \div 10) % 10), DigitChar(k % 10)>>

\* the k-th entry line of the rendered text
EntryLine(k) ==
    LET n == Len(rsections)
        starts == LineStarts(rendered.text, n + 3, <<1>>)
    IN SubSeq(rendered.text, starts[k + 3], starts[k + 4] - 2)

\* whether the k-th entry line shows the timestamp and the label of the
\* k-th section after the number given
BuiltFrom(k, number) ==
    LET line == EntryLine(k)
    IN /\ line[1] = "["
       /\ SubSeq(line, 2, 3) = MinuteChars(rsections[k].startSeconds)
       /\ AfterStamp(line) = <<" ">> \o number \o <<". ">> \o LabelOf(rsections[k])

\* the text has one entry line per section, after three header lines
OneLinePerSection ==
    Cardinality({i \in 1..Len(rendered.text) : rendered.text[i] = "\n"})
        = Len(rsections) + 3

\* C20 (as stated): the k-th entry line is built from the k-th section and
\* carries k as a 2-digit zero-padded number, in the order of the list.
C20_TwoDigitNumberInListOrder ==
    (rendered.made /\ ~rendered.raised) =>
        /\ OneLinePerSection
        /\ \A k \in 1..Len(rsections) :
            BuiltFrom(k, <<DigitChar((k \div 10) % 10), DigitChar(k % 10)>>)

\* C20 (amended): the k-th entry line is built from the k-th section, in
\* the order of the list whatever the timestamps, and carries k in decimal,
\* zero-padded to two digits: 01 to 09, 10 to 99, and all three digits from
\* 100 on.
C20_PaddedNumberInListOrder ==
    (rendered.made /\ ~rendered.raised) =>
        /\ OneLinePerSection
        /\ \A k \in 1..Len(rsections) :
            BuiltFrom(k, IF k < 10 THEN <<"0">> \o Decimal(k) ELSE Decimal(k))

\* C20 witness: a list of 100 sections whose timestamps go down from the
\* first to the second was rendered; the second line is numbered 02.
C20_Witness ==
    /\ rendered.made
    /\ ~rendered.raised
    /\ Len(rsections) = 100
    /\ rsections[1].startSeconds = [isNone |-> FALSE, num |-> 361, den |-> 2]
    /\ rsections[2].startSeconds = [isNone |-> FALSE, num |-> 0, den |-> 1]
    /\ SubSeq(EntryLine(2), 1, 10)
         = <<"[", "0", "0", ":", "0", "0", ".", "0", "0", "]">>
    /\ SubSeq(EntryLine(2), 11, 14) = <<" ", "0", "2", ". ">>

\* the k-th of the first n lines of the rendered text, without its line break
TextLine(k, n) ==
    LET starts == LineStarts(rendered.text, n, <<1>>)
    IN SubSeq(rendered.text, starts[k], starts[k + 1] - 2)

\* C21: for every section list, the empty one included, the text is the
\* line [ar:<username>], the line [ti:<title>], one empty line, then one
\* line per section, each line ended by one line break and nothing after
\* the last.
C21_HeaderBlankEntriesNewline ==
    (rendered.made /\ ~rendered.raised) =>
        LET n == Len(rsections) + 3
            text == rendered.text
        IN /\ OneLinePerSection
           /\ TextLine(1, n) = <<"[ar:", "dj", "]">>
           /\ TextLine(2, n) = <<"[ti:", "test-mix", "]">>
           /\ TextLine(3, n) = <<>>
           /\ \A k \in 4..n : TextLine(k, n) # <<>>
           /\ LineStarts(text, n, <<1>>)[n + 1] = Len(text) + 1
           /\ text[Len(text)] = "\n"

\* C21 witness: the empty section list was rendered: the header, the empty
\* line and no more.
C21_Witness ==
    /\ rendered.made
    /\ ~rendered.raised
    /\ rsections = <<>>
    /\ rendered.text = <<"[ar:", "dj", "]", "\n", "[ti:", "test-mix", "]", "\n", "\n">>

----------------------------------------------------------------------------
(* Properties of the tracklist fetch (under Spec)                          *)

\* C23: fetch_tracklist returns None without raising on every API or
\* network failure (a status other than 200, a null cloudcast lookup, a
\* request exception, a body whose data is null), and the empty list for a
\* cloudcast that was found without sections.
C23_NoneOnEveryFailure ==
    InSteps("fetch") =>
        /\ response.kind \in {"http_error", "lookup_null", "network_error", "data_null"}
            => (outcome = "SkipApi" /\ exc = "" /\ ~fetched.got)
        /\ response.kind = "no_sections_key"
            => (fetched.got /\ fetched.sections = <<>>)

----------------------------------------------------------------------------
(* format_lrc_timestamp on its own, on times given in milliseconds.        *)

varsOld == <<vars, varsT, varsE, varsW, varsL>>

\* none of the specifications above is running
NoOld ==
    /\ NoFile
    /\ tagsT = <<>>
    /\ found = NotSearched
    /\ NoTarget
    /\ NoWalk
    /\ NoRender

\* times of two and three places, of one and two hours
LateMillis == {65500, 3661000, 7200000}

\* the times formatted: every millisecond up to MaxMillis whose hundredths
\* do not fall on a tie that the binary value of the float decides (a last
\* digit 5 that is no multiple of 1/8), and the late times
TimePool ==
    {k \in 0..MaxMillis : k % 10 # 5 \/ k % 125 = 0} \cup LateMillis

InitF ==
    /\ seconds \in {Float(k, 1000) : k \in TimePool}
    /\ stamp = NotFormatted
    /\ NoOld
    /\ NoFolder
    /\ NoCatalog
    /\ NoFetcher
    /\ NoDownloader

\* one call format_lrc_timestamp(seconds)
FormatStamp ==
    /\ ~stamp.made
    /\ stamp' = [made |-> TRUE, text |-> FormatLrcTimestamp(seconds)]
    /\ UNCHANGED seconds
    /\ UNCHANGED <<varsOld, varsD, varsO, varsP, varsM>>

NextF == FormatStamp

SpecF == InitF /\ [][NextF]_<<varsOld, varsX>>

----------------------------------------------------------------------------
(* Properties of the timestamp (under SpecF)                               *)

TwoChars(n) == <<DigitChar(n \div 10), DigitChar(n % 10)>>

\* C22: for a time t >= 0 of a whole number c of hundredths of a second the
\* stamp is [MM:SS.CC] with MM = c \div 6000 in decimal, zero-padded to at
\* least two digits and never rolled over, SS the two digits of the whole
\* seconds of t mod 60 and CC the two digits of its hundredths; 0 gives
\* [00:00.00], 65.5 [01:05.50], 3661 [61:01.00], 7200 [120:00.00].
C22_MinutesSecondsHundredths ==
    (stamp.made /\ (100 * seconds.num) % seconds.den = 0) =>
        LET c == (100 * seconds.num) \div seconds.den
            mm == c \div 6000
        IN /\ stamp.text = <<"[">> \o (IF mm < 100 THEN TwoChars(mm) ELSE Decimal(mm))
                           \o <<":">> \o TwoChars((c % 6000) \div 100)
                           \o <<".">> \o TwoChars(c % 100) \o <<"]">>
           /\ c = 0 => stamp.text = <<"[", "0", "0", ":", "0", "0", ".", "0", "0", "]">>
           /\ c = 6550 => stamp.text = <<"[", "0", "1", ":", "0", "5", ".", "5", "0", "]">>
           /\ c = 366100 => stamp.text = <<"[", "6", "1", ":", "0", "1", ".", "0", "0", "]">>
           /\ c = 720000
                => stamp.text = <<"[", "1", "2", "0", ":", "0", "0", ".", "0", "0", "]">>

\* C22 witness: two hours were formatted as [120:00.00].
C22_Witness ==
    /\ stamp.made
    /\ seconds = [isNone |-> FALSE, num |-> 7200, den |-> 1]
    /\ stamp.text = <<"[", "1", "2", "0", ":", "0", "0", ".", "0", "0", "]">>

\* C28: for every time t >= 0 given in milliseconds the seconds field of
\* the stamp is below 60.00: the rounding of the hundredths never yields
\* 60.00 (59.996 s is not rendered as [00:60.00]).
C28_SecondsFieldBelowSixty ==
    stamp.made =>
        \A i \in 1..(Len(stamp.text) - 1) :
            stamp.text[i] = ":" => stamp.text[i + 1] # "6"

----------------------------------------------------------------------------
(* Sidecar names: a file name is the sequence of its parts between dots,   *)
(* "mix.v2.mp3" is <<"mix", "v2", "mp3">>; no part is empty.               *)

\* Path.suffix: the part after the last dot, "" when the name has no dot
Suffix(name) == IF Len(name) >= 2 THEN name[Len(name)] ELSE ""

\* Path.with_suffix(ext): the suffix replaced, added when there is none,
\* removed when ext is ""
WithSuffix(name, ext) ==
    LET stem == IF Len(name) >= 2 THEN SubSeq(name, 1, Len(name) - 1) ELSE name
    IN IF ext = "" THEN stem ELSE Append(stem, ext)

\* the extensions _find_matching_audio tries, in order
MatchExts == <<"mp3", "m4a", "mp4", "opus", "ogg", "oga">>

NoPath == [isNone |-> TRUE, name |-> <<>>]

\* _find_matching_audio(lrc_path) in a directory holding the files present
FindMatchingAudio(lrc_path, present) ==
    LET base == WithSuffix(lrc_path, "")
        hits == {i \in 1..Len(MatchExts) : WithSuffix(base, MatchExts[i]) \in present}
    IN IF hits = {} THEN NoPath
       ELSE LET first == CHOOSE i \in hits : \A j \in hits : i <= j
            IN [isNone |-> FALSE, name |-> WithSuffix(base, MatchExts[first])]

\* base names without and with a dot
Stems == {<<"mix">>, <<"mix", "v2">>, <<"set">>}

AudioNames == {Append(st, e) : st \in Stems, e \in {"mp3", "m4a", "ogg"}}

Folders == {f \in SUBSET AudioNames : Cardinality(f) \in 1..MaxFolder}

InitD ==
    /\ folder \in Folders
    /\ written = {}
    /\ match = NoMatch
    /\ NoOld
    /\ NoFormat
    /\ NoCatalog
    /\ NoFetcher
    /\ NoDownloader

\* the batch run reaches one audio file of the directory and its sidecar
\* file is written: lrc_path = audio_path.with_suffix(".lrc"), open(lrc_path, "w")
WriteSidecar ==
    /\ \E a \in folder :
        /\ \A w \in written : w.by # a
        /\ written' = written \cup {[path |-> WithSuffix(a, "lrc"), by |-> a]}
    /\ UNCHANGED <<folder, match>>
    /\ UNCHANGED <<varsOld, varsF, varsO, varsP, varsM>>

\* embed_lrc looks for the audio file of a sidecar file that was written
FindMatching ==
    /\ \E w \in written :
        match' = [made |-> TRUE, lrc |-> w.path,
                  result |-> FindMatchingAudio(w.path, folder)]
    /\ UNCHANGED <<folder, written>>
    /\ UNCHANGED <<varsOld, varsF, varsO, varsP, varsM>>

NextD == WriteSidecar \/ FindMatching

SpecD == InitD /\ [][NextD]_<<varsOld, varsX>>

----------------------------------------------------------------------------
(* Properties of the sidecar names (under SpecD)                           *)

\* the name without its last part
BaseName(name) == SubSeq(name, 1, Len(name) - 1)

\* C24: the sidecar file written for an audio file A carries A's base name
\* and the extension lrc, and _find_matching_audio applied to it returns an
\* existing audio file with the base name of A, also when the base name
\* holds dots.
C24_SidecarNameRoundTrip ==
    /\ \A w \in written :
        /\ BaseName(w.path) = BaseName(w.by)
        /\ w.path[Len(w.path)] = "lrc"
    /\ match.made =>
        \A w \in written :
            w.path = match.lrc =>
                /\ ~match.result.isNone
                /\ match.result.name \in folder
                /\ BaseName(match.result.name) = BaseName(w.by)

\* C30: within one batch run over a directory no two distinct audio files
\* write the same sidecar path.
C30_OneWriterPerSidecar ==
    \A w1 \in written : \A w2 \in written :
        w1.path = w2.path => w1.by = w2.by

----------------------------------------------------------------------------
(* find_orphan_tracks: the catalog is what the server holds for the user   *)
(* (uploads, playlists with their items) and how each fetch of it ends.    *)

Slugs == {"set-one", "set-two"}

\* lists of distinct slugs
SlugLists ==
    {<<>>} \cup {<<a>> : a \in Slugs}
           \cup {q \in {<<a, b>> : a \in Slugs, b \in Slugs} : q[1] # q[2]}

\* one playlist: its items on the server and whether fetch_playlist_items
\* gets them (a failed fetch returns None)
PlaylistPool == [items : SlugLists, fetched : BOOLEAN]

RECURSIVE SeqsUpTo(_, _)
SeqsUpTo(S, n) ==
    IF n = 0 THEN {<<>>}
    ELSE LET shorter == SeqsUpTo(S, n - 1)
         IN shorter \cup {Append(q, x) : q \in {r \in shorter : Len(r) = n - 1}, x \in S}

Catalogs ==
    [uploads : SlugLists, uploadsFetched : BOOLEAN,
     playlists : SeqsUpTo(PlaylistPool, MaxPlaylists), playlistsFetched : BOOLEAN]

Range(q) == {q[i] : i \in 1..Len(q)}

\* the loop over the playlists: items that are None or empty add nothing
PlaylistSlugs(pls) ==
    UNION {IF pls[i].fetched THEN Range(pls[i].items) ELSE {} : i \in 1..Len(pls)}

\* find_orphan_tracks(username)
FindOrphanTracks(cat) ==
    IF ~cat.playlistsFetched \/ ~cat.uploadsFetched
    THEN [made |-> TRUE, isNone |-> TRUE, all_uploads |-> <<>>,
          orphan_tracks |-> <<>>, playlist_slugs |-> {}]
    ELSE LET playlist_slugs == PlaylistSlugs(cat.playlists)
             Orphan(u) == u \notin playlist_slugs
         IN [made |-> TRUE, isNone |-> FALSE, all_uploads |-> cat.uploads,
             orphan_tracks |-> SelectSeq(cat.uploads, Orphan),
             playlist_slugs |-> playlist_slugs]

InitO ==
    /\ catalog \in Catalogs
    /\ found_orphans = NotCalled
    /\ NoOld
    /\ NoFormat
    /\ NoFolder
    /\ NoFetcher
    /\ NoDownloader

FindOrphans ==
    /\ ~found_orphans.made
    /\ found_orphans' = FindOrphanTracks(catalog)
    /\ UNCHANGED catalog
    /\ UNCHANGED <<varsOld, varsF, varsD, varsP, varsM>>

NextO == FindOrphans

SpecO == InitO /\ [][NextO]_<<varsOld, varsX>>

----------------------------------------------------------------------------
(* Properties of the orphan search (under SpecO)                           *)

\* the uploads that are an item of no playlist of the user
TrueOrphans(cat) ==
    {u \in Range(cat.uploads) :
        \A i \in 1..Len(cat.playlists) : u \notin Range(cat.playlists[i].items)}

\* C25: whenever find_orphan_tracks returns a result, the orphan list holds
\* exactly the uploads that are in no playlist of the user, however the
\* fetches of the playlists' items ended.
C25_OrphansAreExactlyTheUnlisted ==
    (found_orphans.made /\ ~found_orphans.isNone) =>
        Range(found_orphans.orphan_tracks) = TrueOrphans(catalog)

----------------------------------------------------------------------------
(* The paginated fetchers: fetch_user_playlists, fetch_user_uploads and    *)
(* fetch_playlist_items run the same loop. The server holds a finite chain *)
(* of pages; the cursor None is 0, the endCursor of page i is i, and a     *)
(* request carrying cursor c is answered with page c + 1.                  *)

Fetchers == {"fetch_user_playlists", "fetch_user_uploads", "fetch_playlist_items"}

\* how the request of one page ends: a page, a status other than 200, a
\* body whose lookup is null, a requests.RequestException, or a body whose
\* "data" is null
PageFailures == {"http_error", "null_lookup", "network_error"}

PageOutcomes == {"ok", "data_null"} \cup PageFailures

\* the edges of a page; "gone" is an edge whose cloudcast is null
EdgeLists == {<<>>, <<"one">>, <<"two", "one">>, <<"gone", "two">>}

PagePool(f) ==
    {[outcome |-> "ok", edges |-> e] :
        e \in {x \in EdgeLists : f = "fetch_playlist_items" \/ "gone" \notin Range(x)}}
    \cup {[outcome |-> o, edges |-> <<>>] : o \in PageOutcomes \ {"ok"}}

Chains(f) == SeqsUpTo(PagePool(f), MaxPages) \ {<<>>}

PageAt(cursor) == cursor + 1

EndCursor(i) == i

\* pageInfo.hasNextPage of page i of a chain
HasNextPage(ch, i) == i < Len(ch)

HasCloudcast(edge) == edge # "gone"

\* what the loop over the edges appends: fetch_playlist_items skips the
\* edges whose cloudcast is null
PageEntries(f, edges) ==
    IF f = "fetch_playlist_items" THEN SelectSeq(edges, HasCloudcast) ELSE edges

ReturnedNone == [made |-> TRUE, isNone |-> TRUE, raised |-> FALSE, items |-> <<>>]

ReturnedList(items) ==
    [made |-> TRUE, isNone |-> FALSE, raised |-> FALSE, items |-> items]

\* AttributeError of None.get leaves the function
RaisedOut == [made |-> TRUE, isNone |-> FALSE, raised |-> TRUE, items |-> <<>>]

\* a failing page handing back what was fetched so far
OnPageFailureKeepsPages(items) == ReturnedList(items)

\* return None of the three failing branches
OnPageFailure(items) == ReturnedNone

\* the cursor left as it was
AdvanceCursorStays(after, end_cursor) == after

\* after_cursor = page_info.get("endCursor")
AdvanceCursor(after, end_cursor) == end_cursor

InitP ==
    /\ fetcher \in Fetchers
    /\ chain \in Chains(fetcher)
    /\ after_cursor = 0
    /\ all_items = <<>>
    /\ requests = <<>>
    /\ returned = NotReturned
    /\ NoOld
    /\ NoFormat
    /\ NoFolder
    /\ NoCatalog
    /\ NoDownloader

\* one turn of the while loop: the request, the checks of the response, the
\* loop over the edges and the look at pageInfo
RequestPage ==
    /\ ~returned.made
    /\ Len(requests) <= MaxPages
    /\ LET i == PageAt(after_cursor)
           page == chain[i]
       IN /\ requests' = Append(requests, after_cursor)
          /\ IF page.outcome \in PageFailures
             THEN /\ returned' = OnPageFailure(all_items)
                  /\ UNCHANGED <<after_cursor, all_items>>
             ELSE IF page.outcome = "data_null"
             THEN /\ returned' = RaisedOut
                  /\ UNCHANGED <<after_cursor, all_items>>
             ELSE /\ all_items' = all_items \o PageEntries(fetcher, page.edges)
                  /\ IF HasNextPage(chain, i)
                     THEN /\ after_cursor' = AdvanceCursor(after_cursor, EndCursor(i))
                          /\ UNCHANGED returned
                     ELSE /\ returned' = ReturnedList(all_items')
                          /\ UNCHANGED after_cursor
    /\ UNCHANGED <<fetcher, chain>>
    /\ UNCHANGED <<varsOld, varsF, varsD, varsO, varsM>>

NextP == RequestPage

SpecP == InitP /\ [][NextP]_<<varsOld, varsX>>

\* the loop is a plain while loop of one thread: it keeps running
SpecPFair == SpecP /\ WF_<<varsOld, varsX>>(NextP)

----------------------------------------------------------------------------
(* Properties of the paginated fetchers (under SpecP and SpecPFair)        *)

\* the first page of a chain that fails, whose body is broken, or that is
\* the last
StopIndex(ch) ==
    CHOOSE i \in 1..Len(ch) :
        /\ ch[i].outcome # "ok" \/ i = Len(ch)
        /\ \A j \in 1..(i - 1) : ch[j].outcome = "ok"

RECURSIVE EntriesUpTo(_, _, _)
EntriesUpTo(f, ch, n) ==
    IF n = 0 THEN <<>>
    ELSE EntriesUpTo(f, ch, n - 1) \o PageEntries(f, ch[n].edges)

\* C26: a paginated fetcher that returns a list returns the entries of
\* every page of the chain in page order, and one that meets a status other
\* than 200, a null lookup or a network error on some page returns None,
\* never the entries of the pages fetched before.
C26_AllOrNothing ==
    returned.made =>
        LET stop == StopIndex(chain)
        IN /\ chain[stop].outcome \in PageFailures =>
                (returned.isNone /\ returned.items = <<>>)
           /\ (~returned.isNone /\ ~returned.raised) =>
                /\ \A i \in 1..Len(chain) : chain[i].outcome = "ok"
                /\ returned.items = EntriesUpTo(fetcher, chain, Len(chain))

\* a later page fails after entries were fetched
C26_Witness ==
    /\ returned.made
    /\ returned.isNone
    /\ all_items # <<>>
    /\ Len(requests) >= 2

\* the cursors of the requests sent so far are None, then the endCursor of
\* page 1, of page 2, ... : one request per page, none twice
RequestsFollowChain ==
    /\ \A k \in 1..Len(requests) : requests[k] = IF k = 1 THEN 0 ELSE EndCursor(k - 1)
    /\ Len(requests) <= StopIndex(chain)
    /\ returned.made => Len(requests) = StopIndex(chain)

\* C29: on a finite chain of pages a paginated fetcher sends one request
\* per page, each after the first with the endCursor of the page before,
\* requests no page twice, and comes to an end at the first page without a
\* next page or the first failing page.
C29_TerminatesOneRequestPerPage ==
    /\ []RequestsFollowChain
    /\ <>(returned.made)

\* a list is returned after two pages
C29_Witness ==
    /\ returned.made
    /\ ~returned.isNone
    /\ ~returned.raised
    /\ requests = <<0, 1>>

----------------------------------------------------------------------------
(* The downloader's --limit. A playlist, and the list of uploads, is the   *)
(* number of entries yt-dlp lists for it; what becomes of an entry is      *)
(* drawn when the loop reaches it. In uploads mode playlists holds the one *)
(* list of uploads.                                                        *)

NoLimit == [isNone |-> TRUE, n |-> 0]

Limits == {NoLimit} \cup {[isNone |-> FALSE, n |-> k] : k \in 0..MaxLimit}

\* Python's truth value of limit: None and 0 are false
LimitSet(limit) == ~limit.isNone /\ limit.n # 0

\* an entry is downloaded, fails to download (download_track returns None),
\* or is passed over (no url, or older than --since)
EntryKinds == {"downloaded", "failed", "passed_over"}

InitM ==
    /\ args \in [limit : Limits, playlists : BOOLEAN]
    /\ playlists \in SeqsUpTo(0..MaxTracks, MaxPlaylists)
    /\ args.playlists \/ Len(playlists) = 1
    /\ processed = 0
    /\ all_downloaded = 0
    /\ mpc = [at |-> "main", pl |-> 1, i |-> 0, limit |-> NoLimit, downloaded_files |-> 0]
    /\ NoOld
    /\ NoFormat
    /\ NoFolder
    /\ NoCatalog
    /\ NoFetcher

\* for playlist in playlists: the remaining limit, the break on 0, and the
\* start of download_playlist (no entries: return [])
EnterPlaylist ==
    /\ args.playlists
    /\ mpc.at = "main"
    /\ mpc.pl <= Len(playlists)
    /\ LET over == args.limit.n - all_downloaded
           remaining == IF args.limit.isNone THEN NoLimit
                        ELSE [isNone |-> FALSE, n |-> IF over > 0 THEN over ELSE 0]
       IN IF ~remaining.isNone /\ remaining.n = 0
          THEN /\ mpc' = [mpc EXCEPT !.at = "done"]
               /\ UNCHANGED processed
          ELSE IF playlists[mpc.pl] = 0
          THEN /\ mpc' = [mpc EXCEPT !.pl = @ + 1]
               /\ UNCHANGED processed
          ELSE /\ mpc' = [at |-> "loop", pl |-> mpc.pl, i |-> 1,
                          limit |-> remaining, downloaded_files |-> 0]
               /\ processed' = 0
    /\ UNCHANGED <<args, playlists, all_downloaded>>
    /\ UNCHANGED <<varsOld, varsF, varsD, varsO, varsP>>

\* the loop over the playlists runs out
PlaylistsDone ==
    /\ args.playlists
    /\ mpc.at = "main"
    /\ mpc.pl > Len(playlists)
    /\ mpc' = [mpc EXCEPT !.at = "done"]
    /\ UNCHANGED <<args, playlists, processed, all_downloaded>>
    /\ UNCHANGED <<varsOld, varsF, varsD, varsO, varsP>>

\* uploads mode: no uploads ends the run, otherwise the loop starts with
\* args.limit
EnterUploads ==
    /\ ~args.playlists
    /\ mpc.at = "main"
    /\ IF playlists[1] = 0
       THEN /\ mpc' = [mpc EXCEPT !.at = "done"]
            /\ UNCHANGED processed
       ELSE /\ mpc' = [at |-> "loop", pl |-> 1, i |-> 1,
                       limit |-> args.limit, downloaded_files |-> 0]
            /\ processed' = 0
    /\ UNCHANGED <<args, playlists, all_downloaded>>
    /\ UNCHANGED <<varsOld, varsF, varsD, varsO, varsP>>

\* one turn of the loop over the entries, in download_playlist and in the
\* uploads branch of main: continue, or download, processed += 1 and the
\* break on the limit; the end of the loop hands the playlist's files to
\* all_downloaded
TrackStep ==
    /\ mpc.at = "loop"
    /\ \E kind \in EntryKinds :
        LET got == IF kind = "downloaded" THEN 1 ELSE 0
            counted == IF kind = "passed_over" THEN processed ELSE processed + 1
            stop == /\ kind # "passed_over"
                    /\ LimitSet(mpc.limit)
                    /\ counted >= mpc.limit.n
            last == stop \/ mpc.i = playlists[mpc.pl]
        IN /\ processed' = counted
           /\ IF args.playlists
              THEN /\ all_downloaded' =
                        IF last THEN all_downloaded + mpc.downloaded_files + got
                        ELSE all_downloaded
                   /\ mpc' = IF last
                             THEN [mpc EXCEPT !.at = "main", !.pl = @ + 1,
                                              !.downloaded_files = 0]
                             ELSE [mpc EXCEPT !.i = @ + 1,
                                              !.downloaded_files = @ + got]
              ELSE /\ all_downloaded' = all_downloaded + got
                   /\ mpc' = IF last THEN [mpc EXCEPT !.at = "done"]
                             ELSE [mpc EXCEPT !.i = @ + 1]
    /\ UNCHANGED <<args, playlists>>
    /\ UNCHANGED <<varsOld, varsF, varsD, varsO, varsP>>

NextM == EnterPlaylist \/ PlaylistsDone \/ EnterUploads \/ TrackStep

SpecM == InitM /\ [][NextM]_<<varsOld, varsX>>

----------------------------------------------------------------------------
(* Properties of the limit (under SpecM)                                   *)

\* the tracks downloaded so far in the run
DownloadedSoFar == all_downloaded + mpc.downloaded_files

\* C27: with --limit N, N >= 0, a run downloads at most N tracks in all,
\* in uploads mode and in playlists mode.
C27_AtMostLimitDownloads ==
    ~args.limit.isNone => DownloadedSoFar <= args.limit.n

====
